---- MODULE Spec2Model ----
(***************************************************************************)
(* Model of the PDF extraction pipeline of the RSVP reader:                *)
(*   - PDFProcessor (lib/pdf/pdf-processor.ts), the main-thread coordinator *)
(*     that validates a file, creates a Worker, arms a 30 s timer, relays  *)
(*     progress and tears the worker down;                                 *)
(*   - the extraction worker (lib/pdf/pdf-extraction-worker.ts);           *)
(*   - the text the worker's page loop builds (TextSpec);                  *)
(*   - table-of-contents discovery, extractTableOfContents with its two   *)
(*     strategies (TocSpec), and the heading filter on one page (FontSpec).*)
(*                                                                         *)
(* One PDFProcessor instance is modelled.  Every call of extractText is a  *)
(* job j; the Worker that call creates is worker j.  The closures of a     *)
(* call (timeout, resolve, reject, the worker's onmessage / onerror) are   *)
(* indexed by the job, while this.worker is the single field they share.   *)
(*                                                                         *)
(* Platform semantics used: a Promise settles once (later resolve/reject   *)
(* calls are ignored); Worker.terminate() discards the tasks queued for    *)
(* the worker and empties the message queue towards the Worker object, so  *)
(* a terminated worker neither runs nor delivers anything further.         *)
(***************************************************************************)
EXTENDS Integers, Sequences, FiniteSets, TLC

\* ---------------------------------------------------------------- bounds
\* Spec: calls of extractText on one PDFProcessor, pages per document.
MaxJobs == 2
MaxPagesShared == 1
\* JobSpec: pages per document.
MaxPages == 3
\* Uncaught exceptions raised in one worker.
MaxUncaught == 1

Jobs == 1..MaxJobs

MaxWords == 2        \* words.length of the list given to the engine
MaxTicks == 3        \* the clock runs to FrameStep * (1 + MaxTicks)
MaxEvents == 4       \* frames requested, and events recorded after a start()

\* ------------------------------------------------------------- constants
\* const msPerWord = 60000 / wpm
MsPerMinute == 60000
\* milliseconds between the frame times considered
FrameStep == 100
\* const MAX_FILE_SIZE = 50 * 1024 * 1024
MAX_FILE_SIZE == 50 * 1024 * 1024

\* ---------------------------------------------------------------- strings
\* Strings are sequences of one-character strings, so that includes,
\* endsWith and toLowerCase are computed, not assumed.
ToLowerChar(c) ==
  CASE c = "P" -> "p"
    [] c = "D" -> "d"
    [] c = "F" -> "f"
    [] c = "A" -> "a"
    [] OTHER -> c

ToLowerCase(s) == [i \in 1..Len(s) |-> ToLowerChar(s[i])]

\* String.prototype.includes
Includes(s, sub) ==
  \E i \in 0..(Len(s) - Len(sub)) : SubSeq(s, i + 1, i + Len(sub)) = sub

\* String.prototype.endsWith
EndsWith(s, suf) ==
  /\ Len(suf) <= Len(s)
  /\ SubSeq(s, Len(s) - Len(suf) + 1, Len(s)) = suf

StrPdf == <<"p", "d", "f">>
StrDotPdf == <<".", "p", "d", "f">>

MimePdf == <<"a", "p", "p", "/", "p", "d", "f">>
MimeText == <<"t", "e", "x", "t", "/", "p", "l", "a", "i", "n">>
MimeNone == <<>>

NameLowerPdf == <<"a", ".", "p", "d", "f">>
NameUpperPdf == <<"A", ".", "P", "D", "F">>
NameTxt == <<"a", ".", "t", "x", "t">>
NamePdfTxt == <<"p", "d", "f", ".", "t", "x", "t">>

MkFile(sz, ty, nm) == [size |-> sz, type |-> ty, name |-> nm]

\* The files offered to extractText: sizes around the limit, declared MIME
\* types and names with and without the extension.
Files ==
  { MkFile(1024, MimePdf, NameLowerPdf),
    MkFile(MAX_FILE_SIZE, MimeNone, NameUpperPdf),
    MkFile(1024, MimeText, NameLowerPdf),
    MkFile(MAX_FILE_SIZE, MimePdf, NameTxt),
    MkFile(MAX_FILE_SIZE + 1, MimePdf, NameLowerPdf),
    MkFile(60 * 1024 * 1024, MimeText, NameTxt),
    MkFile(1024, MimeText, NameTxt),
    MkFile(1024, MimeNone, NamePdfTxt) }

\* The file every call of Spec passes: a PDF by type and by name.
SharedFiles == { MkFile(1024, MimePdf, NameLowerPdf) }
NoFile == MkFile(0, <<>>, <<>>)

\* Variant: the limit itself is refused (>= for >).
SizeExceededAtLimit(f) == f.size >= MAX_FILE_SIZE

\* Variant: the extension is compared without toLowerCase().
UnsupportedTypeCaseSensitive(f) ==
  /\ ~Includes(f.type, StrPdf)
  /\ ~EndsWith(f.name, StrDotPdf)

\* if (file.size > MAX_FILE_SIZE) throw ...
SizeExceeded(f) == f.size > MAX_FILE_SIZE

\* if (!file.type.includes('pdf') && !file.name.toLowerCase().endsWith('.pdf')) throw ...
UnsupportedType(f) ==
  /\ ~Includes(f.type, StrPdf)
  /\ ~EndsWith(ToLowerCase(f.name), StrDotPdf)

\* ------------------------------------------------------------------ state
VARIABLES
  worker,        \* PDFProcessor.worker: 0 is null, j is the Worker of job j
  nextJob,       \* number of the next extractText call
  file,          \* file[j]: the File passed to call j
  promise,       \* promise[j]: state of the promise call j returned
  resultOf,      \* resultOf[j]: the run whose result resolved promise j (0: none)
  timer,         \* timer[j]: the 30 s timeout of call j
  read,          \* read[j]: file.arrayBuffer() of call j
  cancelled,     \* cancelled[j]: cancel() was called while this.worker was worker j
  wst,           \* wst[j]: Worker j is "none", "alive" or "terminated"
  termCalls,     \* termCalls[j]: number of terminate() calls on Worker j
  cancelPosted,  \* cancelPosted[j]: number of 'cancel' requests posted to Worker j
  errEvent,      \* errEvent[j]: error events queued for Worker j's onerror
  toWorker,      \* toWorker[j]: requests queued for worker j
  sent,          \* sent[j]: every response worker j has posted, in order
  delivered,     \* delivered[j]: how many of sent[j] worker.onmessage has handled
  forwarded,     \* forwarded[j]: progress values passed to onProgress by handler j
  run,           \* run[j][b]: worker j's handling of the 'extract' request of call b
  uncaught,      \* uncaught[j]: uncaught exceptions raised so far in worker j
  \* the text of one document, as the page loop of the worker builds it
  textPc,        \* "idle", "loop" (inside the for loop) or "done" (result built)
  textPageCount, \* pageCount = pdf.numPages
  textPageNum,   \* pageNum, the loop variable
  fullText,      \* fullText, a sequence of characters
  pageTexts,     \* the value pageText had for each page so far, in page order
  textResult,    \* the PDFExtractionResult (text and pageCount) once built
  \* one call of extractTableOfContents(pdf)
  tocPc,         \* "idle", "getOutline", "parse", "getPage", "getText",
                 \* "returned" or "threw"
  tocOutline,    \* outline: what pdf.getOutline() settled with
  tocCalls,      \* which of parseOutlineToTOC / detectTOCFromFonts were called
  tocNumPages,   \* pdf.numPages, read by detectTOCFromFonts
  tocPageNum,    \* pageNum of the scan loop
  tocItems,      \* items of detectTOCFromFonts, before de-duplication
  tocHeld,       \* pages obtained from getPage and not yet cleaned up
  tocScan,       \* how the scan of each page so far went, in page order
  tocResult,     \* the list extractTableOfContents returned
  \* one turn of the scan loop of detectTOCFromFonts
  fontPc,        \* "idle", "read" (textContent obtained) or "done"
  fontPageNum,   \* pageNum
  fontItems,     \* textContent.items
  fontHeadings,  \* what the turn pushed onto items
  \* one call of extractSectionText
  slicePc,       \* "idle", "called" or "returned"
  sliceText,     \* fullText
  sliceStart,    \* startPage
  sliceEnd,      \* endPage
  sliceTotal,    \* totalPages
  sliceOut,      \* the string returned
  \* one RSVPEngine
  engRunning,          \* isRunning
  engRafId,            \* rafId, 0 for null
  engStartTime,        \* startTime
  engPausedWordIndex,  \* pausedWordIndex
  engPending,          \* frames requested and neither run nor cancelled
  engNextId,           \* the id the next requestAnimationFrame returns
  engClock,            \* the timestamp of the last frame
  engWords,            \* words.length of the last start()
  engWpm,              \* wpm of the last start()
  engLog,              \* what happened after the last start()
  \* one call of groupWords
  grpPc,               \* "idle", "loop" or "returned"
  grpText,             \* text
  grpPer,              \* wordsPerGroup
  grpWords,            \* words
  grpI,                \* i
  grpGroups,           \* groups
  grpOut,              \* the array returned
  \* the page component, the document store and the reading store
  appDoc,              \* filename, pageCount, text, outline of the document store
  appSection,          \* currentSection
  appSaved,            \* savedPosition
  appIndex,            \* currentIndex
  appWordCount,        \* words.length
  appView,             \* view
  appCall              \* what the selection handler that just ran computed

coordVars == <<worker, nextJob, file, promise, resultOf, timer, read, cancelled,
               wst, termCalls, cancelPosted, forwarded, delivered>>
workerVars == <<errEvent, toWorker, sent, run, uncaught>>
textVars == <<textPc, textPageCount, textPageNum, fullText, pageTexts, textResult>>
tocVars == <<tocPc, tocOutline, tocCalls, tocNumPages, tocPageNum, tocItems,
             tocHeld, tocScan, tocResult>>
fontVars == <<fontPc, fontPageNum, fontItems, fontHeadings>>
sliceVars == <<slicePc, sliceText, sliceStart, sliceEnd, sliceTotal, sliceOut>>
engVars == <<engRunning, engRafId, engStartTime, engPausedWordIndex, engPending,
             engNextId, engClock, engWords, engWpm, engLog>>
grpVars == <<grpPc, grpText, grpPer, grpWords, grpI, grpGroups, grpOut>>
navVars == <<appDoc, appSection, appSaved, appIndex, appWordCount, appView, appCall>>
appVars == <<engVars, grpVars, navVars>>
docVars == <<textVars, tocVars, fontVars, sliceVars, appVars>>
vars == <<coordVars, workerVars, docVars>>

\* what the actions on one part leave alone
exceptEng == <<coordVars, workerVars, textVars, tocVars, fontVars, sliceVars, grpVars,
               navVars>>
exceptGrp == <<coordVars, workerVars, textVars, tocVars, fontVars, sliceVars, engVars,
               navVars>>
exceptApp == <<coordVars, workerVars, textVars, tocVars, fontVars, sliceVars, engVars,
               grpVars>>

\* calls: the pdf.js and TOC calls the job has made so far, in order.
\* held: the pages obtained from pdf.getPage on which page.cleanup() has not
\* been called yet.
\* outline before pdf.getOutline() has settled
NoOutline == [status |-> "none", nodes |-> <<>>]

NoResult == [text |-> <<>>, pageCount |-> 0, built |-> FALSE]

IdleRun == [pc |-> "idle", pageNum |-> 0, pageCount |-> 0, held |-> {},
            calls |-> <<>>]

Init ==
  /\ worker = 0
  /\ nextJob = 1
  /\ file = [j \in Jobs |-> NoFile]
  /\ promise = [j \in Jobs |-> "none"]
  /\ resultOf = [j \in Jobs |-> 0]
  /\ timer = [j \in Jobs |-> "none"]
  /\ read = [j \in Jobs |-> "none"]
  /\ cancelled = [j \in Jobs |-> FALSE]
  /\ wst = [j \in Jobs |-> "none"]
  /\ termCalls = [j \in Jobs |-> 0]
  /\ cancelPosted = [j \in Jobs |-> 0]
  /\ errEvent = [j \in Jobs |-> 0]
  /\ toWorker = [j \in Jobs |-> <<>>]
  /\ sent = [j \in Jobs |-> <<>>]
  /\ delivered = [j \in Jobs |-> 0]
  /\ forwarded = [j \in Jobs |-> <<>>]
  /\ run = [j \in Jobs |-> [b \in Jobs |-> IdleRun]]
  /\ uncaught = [j \in Jobs |-> 0]
  /\ textPc = "idle"
  /\ textPageCount = 0
  /\ textPageNum = 0
  /\ fullText = <<>>
  /\ pageTexts = <<>>
  /\ textResult = NoResult
  /\ tocPc = "idle"
  /\ tocOutline = NoOutline
  /\ tocCalls = {}
  /\ tocNumPages = 0
  /\ tocPageNum = 0
  /\ tocItems = <<>>
  /\ tocHeld = {}
  /\ tocScan = <<>>
  /\ tocResult = <<>>
  /\ fontPc = "idle"
  /\ fontPageNum = 0
  /\ fontItems = <<>>
  /\ fontHeadings = <<>>
  /\ slicePc = "idle"
  /\ sliceText = <<>>
  /\ sliceStart = 0
  /\ sliceEnd = 0
  /\ sliceTotal = 0
  /\ sliceOut = <<>>
  /\ engRunning = FALSE
  /\ engRafId = 0
  /\ engStartTime = 0
  /\ engPausedWordIndex = 0
  /\ engPending = {}
  /\ engNextId = 1
  /\ engClock = FrameStep
  /\ engWords = 0
  /\ engWpm = 300
  /\ engLog = <<>>
  /\ grpPc = "idle"
  /\ grpText = <<>>
  /\ grpPer = 1
  /\ grpWords = <<>>
  /\ grpI = 0
  /\ grpGroups = <<>>
  /\ grpOut = <<>>
  /\ appDoc = [id |-> 0, filename |-> "null", pageCount |-> 0, text |-> <<>>,
               outline |-> <<>>]
  /\ appSection = [set |-> FALSE, startPage |-> 0, endPage |-> 0, text |-> <<>>]
  /\ appSaved = [set |-> FALSE, filename |-> "null", sectionStart |-> 0,
                 sectionEnd |-> 0, wordIndex |-> 0, doc |-> 0]
  /\ appIndex = 0
  /\ appWordCount = 0
  /\ appView = "upload"
  /\ appCall = [handler |-> "none", startPage |-> 0, endPage |-> 0,
                sectionText |-> <<>>, restoredNull |-> TRUE, restored |-> 0]

\* ------------------------------------------------------- platform helpers
\* resolve(...) / reject(...): a promise settles once.
Settle(p, outcome) == IF p = "pending" THEN outcome ELSE p

\* Variant: the handler forgets clearTimeout(timeout).
ClearTimeoutForgotten(t) == t

\* clearTimeout(timeout)
ClearTimeout(t) == IF t = "armed" THEN "cleared" ELSE t

Settled(j) == promise[j] \notin {"none", "pending"}

\* --------------------------------------------------------- PDFProcessor
\* private cleanup(): terminate the held worker and drop the reference.
cleanup ==
  IF worker # 0
    THEN /\ wst' = [wst EXCEPT ![worker] = "terminated"]
         /\ termCalls' = [termCalls EXCEPT ![worker] = @ + 1]
         /\ toWorker' = [toWorker EXCEPT ![worker] = <<>>]
         /\ worker' = 0
    ELSE UNCHANGED <<wst, termCalls, toWorker, worker>>

\* async extractText(file): validation, new Worker, timer, handlers, buffer read.
extractText(f) ==
  /\ nextJob \in Jobs
  /\ nextJob' = nextJob + 1
  /\ file' = [file EXCEPT ![nextJob] = f]
  /\ IF SizeExceeded(f)
       THEN /\ promise' = [promise EXCEPT ![nextJob] = "rej_size"]
            /\ UNCHANGED <<worker, wst, timer, read>>
       ELSE IF UnsupportedType(f)
         THEN /\ promise' = [promise EXCEPT ![nextJob] = "rej_type"]
              /\ UNCHANGED <<worker, wst, timer, read>>
         ELSE /\ worker' = nextJob
              /\ wst' = [wst EXCEPT ![nextJob] = "alive"]
              /\ promise' = [promise EXCEPT ![nextJob] = "pending"]
              /\ timer' = [timer EXCEPT ![nextJob] = "armed"]
              /\ read' = [read EXCEPT ![nextJob] = "pending"]
  /\ UNCHANGED <<resultOf, cancelled, termCalls, cancelPosted,
                 forwarded, delivered, workerVars>>
  /\ UNCHANGED docVars

\* setTimeout(() => { reject(timeout); this.cleanup() }, 30000)
TimeoutFires(j) ==
  /\ timer[j] = "armed"
  /\ timer' = [timer EXCEPT ![j] = "fired"]
  /\ promise' = [promise EXCEPT ![j] = Settle(@, "rej_timeout")]
  /\ cleanup
  /\ UNCHANGED <<nextJob, file, resultOf, read, cancelled,
                 cancelPosted, forwarded, delivered, errEvent, sent, run, uncaught>>
  /\ UNCHANGED docVars

\* this.worker!.onmessage = (e) => { progress | complete | error }
WorkerOnMessage(j) ==
  /\ wst[j] = "alive"
  /\ delivered[j] < Len(sent[j])
  /\ LET m == sent[j][delivered[j] + 1] IN
       /\ delivered' = [delivered EXCEPT ![j] = @ + 1]
       /\ IF m.type = "progress"
            THEN /\ forwarded' = [forwarded EXCEPT ![j] = Append(@, <<m.num, m.den>>)]
                 /\ UNCHANGED <<timer, promise, resultOf, worker, wst, termCalls, toWorker>>
            ELSE IF m.type = "complete"
              THEN /\ timer' = [timer EXCEPT ![j] = ClearTimeout(@)]
                   /\ promise' = [promise EXCEPT ![j] = Settle(@, "resolved")]
                   /\ resultOf' = [resultOf EXCEPT ![j] =
                                     IF promise[j] = "pending" THEN m.run ELSE @]
                   /\ cleanup
                   /\ UNCHANGED forwarded
              ELSE /\ timer' = [timer EXCEPT ![j] = ClearTimeout(@)]
                   /\ promise' = [promise EXCEPT ![j] = Settle(@, "rej_error")]
                   /\ cleanup
                   /\ UNCHANGED <<forwarded, resultOf>>
  /\ UNCHANGED <<nextJob, file, read, cancelled, cancelPosted,
                 errEvent, sent, run, uncaught>>
  /\ UNCHANGED docVars

\* this.worker!.onerror = (error) => { clearTimeout; reject; this.cleanup() }
WorkerOnError(j) ==
  /\ wst[j] = "alive"
  /\ errEvent[j] > 0
  /\ errEvent' = [errEvent EXCEPT ![j] = @ - 1]
  /\ timer' = [timer EXCEPT ![j] = ClearTimeout(@)]
  /\ promise' = [promise EXCEPT ![j] = Settle(@, "rej_workererror")]
  /\ cleanup
  /\ UNCHANGED <<nextJob, file, resultOf, read, cancelled,
                 cancelPosted, forwarded, delivered, sent, run, uncaught>>
  /\ UNCHANGED docVars

\* file.arrayBuffer().then(buffer => this.worker!.postMessage(request, [buffer]))
\* with the .catch that follows: posting on a null this.worker throws a
\* TypeError, which the .catch turns into the read-failure rejection.
ArrayBufferResolved(j) ==
  /\ read[j] = "pending"
  /\ read' = [read EXCEPT ![j] = "done"]
  /\ IF worker # 0
       THEN /\ toWorker' = [toWorker EXCEPT ![worker] =
                              Append(@, [type |-> "extract", buffer |-> j])]
            /\ UNCHANGED <<timer, promise, worker, wst, termCalls>>
       ELSE /\ timer' = [timer EXCEPT ![j] = ClearTimeout(@)]
            /\ promise' = [promise EXCEPT ![j] = Settle(@, "rej_read")]
            /\ cleanup
  /\ UNCHANGED <<nextJob, file, resultOf, cancelled, cancelPosted,
                 forwarded, delivered, errEvent, sent, run, uncaught>>
  /\ UNCHANGED docVars

\* file.arrayBuffer() rejects: .catch(err => { clearTimeout; reject; this.cleanup() })
ArrayBufferRejected(j) ==
  /\ read[j] = "pending"
  /\ read' = [read EXCEPT ![j] = "failed"]
  /\ timer' = [timer EXCEPT ![j] = ClearTimeout(@)]
  /\ promise' = [promise EXCEPT ![j] = Settle(@, "rej_read")]
  /\ cleanup
  /\ UNCHANGED <<nextJob, file, resultOf, cancelled, cancelPosted,
                 forwarded, delivered, errEvent, sent, run, uncaught>>
  /\ UNCHANGED docVars

\* Variant: cancel() also disarms the timers and settles nothing.
cancelClearsTimeout ==
  /\ IF worker # 0
       THEN /\ cancelPosted' = [cancelPosted EXCEPT ![worker] = @ + 1]
            /\ cancelled' = [cancelled EXCEPT ![worker] = TRUE]
       ELSE UNCHANGED <<cancelPosted, cancelled>>
  /\ timer' = [j \in Jobs |-> ClearTimeout(timer[j])]
  /\ cleanup
  /\ UNCHANGED <<nextJob, file, promise, resultOf, read, forwarded,
                 delivered, errEvent, sent, run, uncaught>>
  /\ UNCHANGED docVars

\* cancel(): if (this.worker) { postMessage({type:'cancel'}); this.cleanup() }
cancel ==
  /\ IF worker # 0
       THEN /\ cancelPosted' = [cancelPosted EXCEPT ![worker] = @ + 1]
            /\ cancelled' = [cancelled EXCEPT ![worker] = TRUE]
       ELSE UNCHANGED <<cancelPosted, cancelled>>
  /\ cleanup
  /\ UNCHANGED <<nextJob, file, promise, resultOf, timer, read, forwarded,
                 delivered, errEvent, sent, run, uncaught>>
  /\ UNCHANGED docVars

\* ---------------------------------------------------- extraction worker
\* A progress value counted from zero: (pageNum - 1) / pageCount.
ProgressMsgZeroBased(b, k, n) ==
  [type |-> "progress", run |-> b, num |-> k - 1, den |-> n]

\* progress: (pageNum / pageCount) * 100, kept as the fraction num / den
ProgressMsg(b, k, n) == [type |-> "progress", run |-> b, num |-> k, den |-> n]
CompleteMsg(b, n) == [type |-> "complete", run |-> b, num |-> 0, den |-> n]
ErrorMsg(b) == [type |-> "error", run |-> b, num |-> 0, den |-> 0]

\* self.postMessage(response)
Post(j, m) == sent' = [sent EXCEPT ![j] = Append(@, m)]

SetRun(j, b, r) == run' = [run EXCEPT ![j][b] = r]

\* A catch block that reports the error twice.
CatchErrorPostsTwice(j, b) ==
  /\ sent' = [sent EXCEPT ![j] = @ \o <<ErrorMsg(b), ErrorMsg(b)>>]
  /\ SetRun(j, b, [run[j][b] EXCEPT !.pc = "failed"])

\* A catch block that posts what was extracted so far as the result.
CatchErrorPostsResult(j, b) ==
  /\ Post(j, CompleteMsg(b, run[j][b].pageCount))
  /\ SetRun(j, b, [run[j][b] EXCEPT !.pc = "failed"])

\* catch (error) { self.postMessage({ type: 'error', ... }) }
CatchError(j, b) ==
  /\ Post(j, ErrorMsg(b))
  /\ SetRun(j, b, [run[j][b] EXCEPT !.pc = "failed"])

\* self.onmessage = async (e) => { ... }: a 'cancel' request returns at
\* once, an 'extract' request starts pdfjsLib.getDocument and awaits it.
SelfOnMessage(j) ==
  /\ wst[j] = "alive"
  /\ toWorker[j] # <<>>
  /\ LET m == Head(toWorker[j]) IN
       /\ toWorker' = [toWorker EXCEPT ![j] = Tail(@)]
       /\ IF m.type = "extract"
            THEN SetRun(j, m.buffer, [IdleRun EXCEPT !.pc = "open",
                                      !.calls = <<"getDocument">>])
            ELSE UNCHANGED run
  /\ UNCHANGED <<coordVars, errEvent, sent, uncaught>>
  /\ UNCHANGED docVars

\* const pdf = await loadingTask.promise; const pageCount = pdf.numPages
\* then extractTableOfContents(pdf) is called and awaited.
GetDocumentSettles(j, b, numPages) ==
  /\ wst[j] = "alive"
  /\ run[j][b].pc = "open"
  /\ \/ \E n \in numPages :
          /\ SetRun(j, b, [run[j][b] EXCEPT !.pc = "toc", !.pageCount = n,
                              !.calls = Append(@, "extractTableOfContents")])
          /\ UNCHANGED sent
     \/ CatchError(j, b)
  /\ UNCHANGED <<coordVars, errEvent, toWorker, uncaught>>
  /\ UNCHANGED docVars

\* const outline = await extractTableOfContents(pdf); then the page loop
\* starts (pageNum = 1) or, with no pages, the result is posted.  The call
\* always returns a list (what it does inside is TocSpec).
ExtractTOCSettles(j, b) ==
  /\ wst[j] = "alive"
  /\ run[j][b].pc = "toc"
  /\ IF 1 <= run[j][b].pageCount
       THEN /\ SetRun(j, b, [run[j][b] EXCEPT !.pc = "getPage", !.pageNum = 1,
                                            !.calls = Append(@, "getPage")])
            /\ UNCHANGED sent
       ELSE /\ Post(j, CompleteMsg(b, run[j][b].pageCount))
            /\ SetRun(j, b, [run[j][b] EXCEPT !.pc = "done"])
  /\ UNCHANGED <<coordVars, errEvent, toWorker, uncaught>>
  /\ UNCHANGED docVars

\* A loop body that discovers the table of contents again for every page.
GetPageSettlesCallsTOC(j, b) ==
  /\ wst[j] = "alive"
  /\ run[j][b].pc = "getPage"
  /\ \/ /\ SetRun(j, b, [run[j][b] EXCEPT !.pc = "getText",
                                            !.held = @ \cup {run[j][b].pageNum},
                    !.calls = @ \o <<"extractTableOfContents", "getTextContent">>])
        /\ UNCHANGED sent
     \/ CatchError(j, b)
  /\ UNCHANGED <<coordVars, errEvent, toWorker, uncaught>>
  /\ UNCHANGED docVars

\* const page = await pdf.getPage(pageNum); page.getTextContent() is called
GetPageSettles(j, b) ==
  /\ wst[j] = "alive"
  /\ run[j][b].pc = "getPage"
  /\ \/ /\ SetRun(j, b, [run[j][b] EXCEPT !.pc = "getText",
                                            !.held = @ \cup {run[j][b].pageNum},
                                            !.calls = Append(@, "getTextContent")])
        /\ UNCHANGED sent
     \/ CatchError(j, b)
  /\ UNCHANGED <<coordVars, errEvent, toWorker, uncaught>>
  /\ UNCHANGED docVars

\* const textContent = await page.getTextContent(); fullText += ...;
\* page.cleanup(); postMessage(progress); pageNum++; after the last page
\* the 'complete' response is posted in the same turn.
GetTextContentSettles(j, b) ==
  /\ wst[j] = "alive"
  /\ run[j][b].pc = "getText"
  /\ LET r == run[j][b]
         p == ProgressMsg(b, r.pageNum, r.pageCount)
     IN \/ IF r.pageNum + 1 <= r.pageCount
             THEN /\ Post(j, p)
                  /\ SetRun(j, b, [r EXCEPT !.pc = "getPage", !.pageNum = @ + 1,
                                            !.held = @ \ {r.pageNum},
                                            !.calls = Append(@, "getPage")])
             ELSE /\ sent' = [sent EXCEPT ![j] = @ \o <<p, CompleteMsg(b, r.pageCount)>>]
                  /\ SetRun(j, b, [r EXCEPT !.pc = "done", !.pageNum = @ + 1,
                                            !.held = @ \ {r.pageNum}])
        \/ CatchError(j, b)
  /\ UNCHANGED <<coordVars, errEvent, toWorker, uncaught>>
  /\ UNCHANGED docVars

\* self.onerror = (event) => { self.postMessage({ type: 'error', ... }) }:
\* an exception no handler caught in the worker's global scope.  The handler
\* does not cancel the event, so it is also reported to the Worker object.
SelfOnError(j) ==
  /\ wst[j] = "alive"
  /\ uncaught[j] < MaxUncaught
  /\ uncaught' = [uncaught EXCEPT ![j] = @ + 1]
  /\ Post(j, ErrorMsg(0))
  /\ errEvent' = [errEvent EXCEPT ![j] = @ + 1]
  /\ UNCHANGED <<coordVars, toWorker, run>>
  /\ UNCHANGED docVars

\* ------------------------------------------------------- specification
\* What the processor, the platform and the workers do, whatever the inputs.
Steps(numPages) ==
  \/ cancel
  \/ \E j \in Jobs : TimeoutFires(j)
  \/ \E j \in Jobs : WorkerOnMessage(j)
  \/ \E j \in Jobs : WorkerOnError(j)
  \/ \E j \in Jobs : ArrayBufferResolved(j)
  \/ \E j \in Jobs : ArrayBufferRejected(j)
  \/ \E j \in Jobs : SelfOnMessage(j)
  \/ \E j, b \in Jobs : GetDocumentSettles(j, b, numPages)
  \/ \E j, b \in Jobs : ExtractTOCSettles(j, b)
  \/ \E j, b \in Jobs : GetPageSettles(j, b)
  \/ \E j, b \in Jobs : GetTextContentSettles(j, b)
  \/ \E j \in Jobs : SelfOnError(j)

\* Spec: one PDFProcessor on which extractText is called up to MaxJobs
\* times, at any moment, also while an earlier call is in flight.
Next ==
  \/ \E f \in SharedFiles : extractText(f)
  \/ Steps(0..MaxPagesShared)

Spec == Init /\ [][Next]_vars

\* JobSpec: a PDFProcessor used the way usePDFExtraction uses it, created
\* for one extractText call, with any file and longer documents.
JobNext ==
  \/ \E f \in Files : nextJob = 1 /\ extractText(f)
  \/ Steps(0..MaxPages)

JobSpec == Init /\ [][JobNext]_vars

\* The 30 s timer of a job fires unless it is cleared; everything else (the
\* worker, the buffer read, the caller) may stall for ever.
FairSpec == Spec /\ \A j \in Jobs : WF_vars(TimeoutFires(j))

FairJobSpec == JobSpec /\ \A j \in Jobs : WF_vars(TimeoutFires(j))

\* ------------------------------------------------- text of a document
\* The page loop of the worker seen from the text it builds: strings are
\* sequences of characters, textContent.items is a list of item strings.
MaxTextPages == 2
MaxTextItems == 2

Newline == "\n"
Space == " "
TextItemStrs == {<<"a">>, <<"b">>, <<Newline>>}

\* every list of at most n elements of S
SeqUpTo(S, n) == UNION {[1..k -> S] : k \in 0..n}

RECURSIVE Join(_, _)
\* Array.prototype.join(sep) on a list of strings
Join(strs, sep) ==
  IF strs = <<>> THEN <<>>
  ELSE IF Len(strs) = 1 THEN strs[1]
  ELSE strs[1] \o <<sep>> \o Join(Tail(strs), sep)

RECURSIVE Split(_, _)
\* String.prototype.split(sep) for a one-character separator: the pieces
\* between the separators, one more piece than there are separators.
Split(str, sep) ==
  IF \A i \in 1..Len(str) : str[i] # sep THEN <<str>>
  ELSE LET i == CHOOSE k \in 1..Len(str) :
                  str[k] = sep /\ \A h \in 1..(k - 1) : str[h] # sep
       IN <<SubSeq(str, 1, i - 1)>> \o Split(SubSeq(str, i + 1, Len(str)), sep)

\* fullText += pageText + '\n'
AppendPage(text, pageText, pageNum) == text \o pageText \o <<Newline>>

\* const pageCount = pdf.numPages; ...; let fullText = ''; pageNum = 1
TextOpen ==
  /\ textPc = "idle"
  /\ \E n \in 0..MaxTextPages : textPageCount' = n
  /\ textPc' = "loop"
  /\ textPageNum' = 1
  /\ fullText' = <<>>
  /\ UNCHANGED <<pageTexts, textResult, coordVars, workerVars, tocVars, fontVars, sliceVars, appVars>>

\* One turn of the loop on a page whose text was read: pageText is the
\* item strings joined with spaces, fullText grows, pageNum++.
TextPage ==
  /\ textPc = "loop"
  /\ textPageNum <= textPageCount
  /\ \E items \in SeqUpTo(TextItemStrs, MaxTextItems) :
       LET pageText == Join(items, Space) IN
         /\ fullText' = AppendPage(fullText, pageText, textPageNum)
         /\ pageTexts' = Append(pageTexts, pageText)
  /\ textPageNum' = textPageNum + 1
  /\ UNCHANGED <<textPc, textPageCount, textResult, coordVars, workerVars, tocVars, fontVars, sliceVars, appVars>>

\* const result = { text: fullText, outline, pageCount, filename }
TextComplete ==
  /\ textPc = "loop"
  /\ textPageNum > textPageCount
  /\ textResult' = [text |-> fullText, pageCount |-> textPageCount, built |-> TRUE]
  /\ textPc' = "done"
  /\ UNCHANGED <<textPageCount, textPageNum, fullText, pageTexts,
                 coordVars, workerVars, tocVars, fontVars, sliceVars, appVars>>

\* TextSpec: a document of up to MaxTextPages pages is extracted with no
\* failure, whatever the text items of its pages.
TextNext ==
  \/ TextOpen
  \/ TextPage
  \/ TextComplete

TextSpec == Init /\ [][TextNext]_vars

\* ------------------------------------------------ table of contents
\* extractTableOfContents(pdf) and the two strategies it chooses between.
\* A TOC entry is [title, pageIndex, level].
MaxNodes == 2        \* nodes of a structured outline
MaxDestPage == 1     \* largest page index a destination resolves to
MaxScanPages == 2    \* pdf.numPages of a scanned document, any content
MaxExtraPages == 1   \* pages beyond the scan limit of a long document

\* const maxPagesToScan = Math.min(20, pdf.numPages)
ScanLimit == 20

Min(a, b) == IF a <= b THEN a ELSE b

LowerChars == <<"a", "b", "c", "d", "e", "f", "g", "h", "i", "j", "k", "l", "m",
                "n", "o", "p", "q", "r", "s", "t", "u", "v", "w", "x", "y", "z">>
UpperChars == <<"A", "B", "C", "D", "E", "F", "G", "H", "I", "J", "K", "L", "M",
                "N", "O", "P", "Q", "R", "S", "T", "U", "V", "W", "X", "Y", "Z">>
DigitChars == <<"0", "1", "2", "3", "4", "5", "6", "7", "8", "9">>

InChars(c, chars) == \E i \in 1..Len(chars) : chars[i] = c

ToUpperChar(c) ==
  IF InChars(c, LowerChars)
    THEN UpperChars[CHOOSE i \in 1..Len(LowerChars) : LowerChars[i] = c]
    ELSE c

\* String.prototype.toUpperCase
ToUpperCase(s) == [i \in 1..Len(s) |-> ToUpperChar(s[i])]

IsWhitespace(c) == c \in {Space, Newline, "\t"}

RECURSIVE TrimStart(_)
TrimStart(s) ==
  IF s # <<>> /\ IsWhitespace(Head(s)) THEN TrimStart(Tail(s)) ELSE s

RECURSIVE TrimEnd(_)
TrimEnd(s) ==
  IF s # <<>> /\ IsWhitespace(s[Len(s)])
    THEN TrimEnd(SubSeq(s, 1, Len(s) - 1))
    ELSE s

\* String.prototype.trim
Trim(s) == TrimEnd(TrimStart(s))

\* /[a-zA-Z0-9]/.test(text)
HasAlphanumeric(s) ==
  \E i \in 1..Len(s) :
    InChars(s[i], LowerChars) \/ InChars(s[i], UpperChars) \/ InChars(s[i], DigitChars)

\* 'Untitled'
Untitled == <<"U", "n", "t", "i", "t", "l", "e", "d">>

\* ---- Strategy A: the structured outline
\* An outline is kept as the list of its nodes in document (pre-)order, each
\* with its depth: the items of node i are the nodes after i that lie deeper
\* than i, up to the next node that does not.  A destination is
\*   kind "none":  the node has no dest;
\*   kind "named": dest is a string; pdf.getDestination rejects, resolves
\*                 with null, or resolves with an array whose first element
\*                 is a page reference;
\*   kind "array": dest is an array whose first element is a page reference;
\* and pdf.getPageIndex on a reference resolves with index or rejects.
Rejects == -1
DestPages == 0..MaxDestPage

Dests ==
  {[kind |-> "none", lookup |-> "none", index |-> 0]}
    \cup {[kind |-> "named", lookup |-> l, index |-> 0] : l \in {"rejects", "null"}}
    \cup {[kind |-> k, lookup |-> "ref", index |-> x] :
            k \in {"named", "array"}, x \in DestPages \cup {Rejects}}

\* title of the i-th node of an outline
TitleOf(i) == <<"T", DigitChars[i + 1]>>

\* the depths of the nodes of a forest of n nodes, in pre-order
Shapes(n) ==
  {d \in [1..n -> 0..(n - 1)] :
     d[1] = 0 /\ \A i \in 1..(n - 1) : d[i + 1] <= d[i] + 1}

\* every outline of 1..MaxNodes nodes; the first node may lack a title
OutlineLists ==
  UNION {{[i \in 1..n |-> [depth |-> d[i], dest |-> ds[i],
                           title |-> IF i = blank THEN <<>> ELSE TitleOf(i)]] :
            d \in Shapes(n), ds \in [1..n -> Dests], blank \in {0, 1}} :
         n \in 1..MaxNodes}

\* what pdf.getOutline() can settle with
OutlineResults ==
  {[status |-> "rejected", nodes |-> <<>>],
   [status |-> "null", nodes |-> <<>>],
   [status |-> "list", nodes |-> <<>>]}
    \cup {[status |-> "list", nodes |-> ns] : ns \in OutlineLists}

\* dest resolution without the test of what getDestination resolved with
ResolveDestUnchecked(dest) ==
  IF dest.kind = "none" THEN [threw |-> FALSE, pageIndex |-> 0]
  ELSE IF dest.lookup \in {"rejects", "null"} THEN [threw |-> TRUE, pageIndex |-> 0]
  ELSE IF dest.index = Rejects THEN [threw |-> TRUE, pageIndex |-> 0]
  ELSE [threw |-> FALSE, pageIndex |-> dest.index]

\* let pageIndex = 0; if (node.dest) { string: getDestination, then
\* getPageIndex(dest[0]) if (dest && dest[0]); array: getPageIndex(dest[0]) }
\* threw: one of the awaited calls rejected.
ResolveDest(dest) ==
  IF dest.kind = "none" THEN [threw |-> FALSE, pageIndex |-> 0]
  ELSE IF dest.lookup = "rejects" THEN [threw |-> TRUE, pageIndex |-> 0]
  ELSE IF dest.lookup = "null" THEN [threw |-> FALSE, pageIndex |-> 0]
  ELSE IF dest.index = Rejects THEN [threw |-> TRUE, pageIndex |-> 0]
  ELSE [threw |-> FALSE, pageIndex |-> dest.index]

\* last node of the subtree of node i among nodes i..hi
SubtreeEnd(nodes, i, hi) ==
  CHOOSE e \in i..hi :
    /\ \A h \in (i + 1)..e : nodes[h].depth > nodes[i].depth
    /\ e < hi => nodes[e + 1].depth <= nodes[i].depth

\* Children given their parent's level.
SameLevel(level) == level

\* the level passed down for node.items: level + 1
ChildLevel(level) == level + 1

RECURSIVE ParseOutlineToTOC(_, _, _, _)
\* parseOutlineToTOC(pdf, outline, level) on the sibling list nodes[lo..hi]:
\* for each node, inside try: resolve, push the entry, recurse into
\* node.items with level + 1; the catch skips the node.
ParseOutlineToTOC(nodes, lo, hi, level) ==
  IF lo > hi THEN <<>>
  ELSE LET node == nodes[lo]
           e == SubtreeEnd(nodes, lo, hi)
           r == ResolveDest(node.dest)
           entry == [title |-> IF node.title = <<>> THEN Untitled ELSE node.title,
                     pageIndex |-> r.pageIndex,
                     level |-> level]
       IN (IF r.threw
             THEN <<>>
             ELSE <<entry>> \o ParseOutlineToTOC(nodes, lo + 1, e, ChildLevel(level)))
            \o ParseOutlineToTOC(nodes, e + 1, hi, level)

\* ---- Strategy B: headings by font size
\* A text item is [str, height]; str <<>> also stands for a missing str
\* (str?.trim() || '') and height 0 for a missing height (height || 0).
RECURSIVE SumHeights(_)
SumHeights(hs) == IF hs = <<>> THEN 0 ELSE Head(hs) + SumHeights(Tail(hs))

\* fontSizes = items.map(height || 0).filter(size => size > 0)
FontSizes(items) ==
  SelectSeq([i \in 1..Len(items) |-> items[i].height], LAMBDA h : h > 0)

\* the test with >= in place of >
AtLeastAverage(fontSize, sum, count) == 10 * fontSize * count >= 13 * sum

\* fontSize > avgFontSize * 1.3, with avgFontSize = sum / count
LargerThanAverage(fontSize, sum, count) == 10 * fontSize * count > 13 * sum

\* text.length >= 3 && text.length <= 100
HeadingLength(text) == Len(text) >= 3 /\ Len(text) <= 100

\* text !== text.toUpperCase()
NotUpperCased(text) == text # ToUpperCase(text)

\* the condition of the if statement, lines 140-146
IsHeading(item, sum, count) ==
  LET text == Trim(item.str) IN
    /\ LargerThanAverage(item.height, sum, count)
    /\ HeadingLength(text)
    /\ HasAlphanumeric(text)
    /\ NotUpperCased(text)

\* The level thresholds with > in place of >=.
HeadingLevelStrict(fontSize, sum, count) ==
  IF fontSize * count > 2 * sum THEN 0
  ELSE IF 2 * fontSize * count > 3 * sum THEN 1
  ELSE 2

\* sizeRatio = fontSize / avgFontSize; >= 2.0 ? 0 : >= 1.5 ? 1 : 2
HeadingLevel(fontSize, sum, count) ==
  IF fontSize * count >= 2 * sum THEN 0
  ELSE IF 2 * fontSize * count >= 3 * sum THEN 1
  ELSE 2

RECURSIVE HeadingsAmong(_, _, _, _)
\* for (const item of textContent.items) { if (...) items.push({...}) }
HeadingsAmong(items, sum, count, pageNum) ==
  IF items = <<>> THEN <<>>
  ELSE (IF IsHeading(Head(items), sum, count)
          THEN <<[title |-> Trim(Head(items).str),
                  pageIndex |-> pageNum - 1,
                  level |-> HeadingLevel(Head(items).height, sum, count)]>>
          ELSE <<>>)
         \o HeadingsAmong(Tail(items), sum, count, pageNum)

\* what one page adds to items: nothing when no item has a height > 0
PageCandidates(items, pageNum) ==
  LET fontSizes == FontSizes(items) IN
    IF Len(fontSizes) = 0 THEN <<>>
    ELSE HeadingsAmong(items, SumHeights(fontSizes), Len(fontSizes), pageNum)

\* index of the first element with the pageIndex and title of items[i]
FindIndex(items, i) ==
  CHOOSE k \in 1..i :
    /\ items[k].pageIndex = items[i].pageIndex /\ items[k].title = items[i].title
    /\ \A h \in 1..(k - 1) :
         ~(items[h].pageIndex = items[i].pageIndex /\ items[h].title = items[i].title)

\* a filter that keeps the last element of each (pageIndex, title) group
UniqueItemsKeepLast(items) ==
  LET SameKey(a, b) == a.pageIndex = b.pageIndex /\ a.title = b.title
      kept == SelectSeq([i \in 1..Len(items) |-> i],
                        LAMBDA i : \A h \in (i + 1)..Len(items) :
                                     ~SameKey(items[h], items[i]))
  IN [k \in 1..Len(kept) |-> items[kept[k]]]

\* items.filter((item, index, self) => index === self.findIndex(...))
UniqueItems(items) ==
  LET kept == SelectSeq([i \in 1..Len(items) |-> i],
                        LAMBDA i : i = FindIndex(items, i))
  IN [k \in 1..Len(kept) |-> items[kept[k]]]

RECURSIVE InsertByPage(_, _)
\* x goes after every element whose pageIndex is not larger
InsertByPage(sorted, x) ==
  IF sorted = <<>> THEN <<x>>
  ELSE IF Head(sorted).pageIndex <= x.pageIndex
    THEN <<Head(sorted)>> \o InsertByPage(Tail(sorted), x)
    ELSE <<x>> \o sorted

RECURSIVE SortByPageIndex(_)
\* uniqueItems.sort((a, b) => a.pageIndex - b.pageIndex), a stable sort
SortByPageIndex(items) ==
  IF items = <<>> THEN <<>>
  ELSE InsertByPage(SortByPageIndex(SubSeq(items, 1, Len(items) - 1)),
                    items[Len(items)])

\* text items of the scanned pages
ItemBig == [str |-> <<"A", "b", "c">>, height |-> 8]
ItemMid == [str |-> <<"A", "b", "c">>, height |-> 6]
ItemOther == [str |-> <<"A", "b", "d">>, height |-> 8]
ItemBody == [str |-> <<"x", "y", "z">>, height |-> 1]
ItemFlat == [str |-> <<"A", "b", "c">>, height |-> 0]

\* textContent.items of a scanned page
ScanPages ==
  {<<>>,
   <<ItemBody, ItemBody>>,
   <<ItemFlat, ItemFlat>>,
   <<ItemBig, ItemBody, ItemBody>>,
   <<ItemBig, ItemMid, ItemBody, ItemBody>>,
   <<ItemMid, ItemBig, ItemBody, ItemBody>>,
   <<ItemOther, ItemBig, ItemBody, ItemBody>>,
   <<ItemBig, ItemOther, ItemBig, ItemBody, ItemBody>>}

\* Documents of more than MaxScanPages pages are taken with ScanLimit up to
\* ScanLimit + MaxExtraPages pages, one fixed content per page (a heading
\* page when the page number is odd, a page of height-0 items when even)
\* and no failing call.
LongDocSizes == ScanLimit..(ScanLimit + MaxExtraPages)
ScanDocSizes == (0..MaxScanPages) \cup LongDocSizes
IsLongDoc(numPages) == numPages > MaxScanPages

\* what getTextContent can give for page pageNum of a numPages-page document
PageContents(numPages, pageNum) ==
  IF IsLongDoc(numPages)
    THEN {IF pageNum % 2 = 1 THEN <<ItemBig, ItemBody, ItemBody>>
                             ELSE <<ItemFlat, ItemFlat>>}
    ELSE ScanPages

\* A scan over every page of the document.
ScanAllPages(numPages) == numPages

\* const maxPagesToScan = Math.min(20, pdf.numPages)
MaxPagesToScan(numPages) == Min(ScanLimit, numPages)

\* ---- one call of extractTableOfContents
\* the test without the length
OutlineNotNull(outline) == outline.status = "list"

\* if (outline && outline.length > 0)
OutlinePresent(outline) == outline.status = "list" /\ Len(outline.nodes) > 0

\* the call propagates the exception to its caller
TocRethrow ==
  /\ tocPc' = "threw"
  /\ tocResult' = <<>>

\* catch (error) { console.warn(...); return [] }
TocCatch ==
  /\ tocPc' = "returned"
  /\ tocResult' = <<>>

\* the end of one turn of the scan loop: pageNum++, then either the next
\* getPage or, after the last page, de-duplication, sort and return
ScanAdvance(items) ==
  /\ tocItems' = items
  /\ tocPageNum' = tocPageNum + 1
  /\ IF tocPageNum + 1 <= MaxPagesToScan(tocNumPages)
       THEN tocPc' = "getPage" /\ UNCHANGED tocResult
       ELSE /\ tocPc' = "returned"
            /\ tocResult' = SortByPageIndex(UniqueItems(items))

\* extractTableOfContents(pdf) is called: const outline = await pdf.getOutline()
TocCall ==
  /\ tocPc = "idle"
  /\ tocPc' = "getOutline"
  /\ UNCHANGED <<tocOutline, tocCalls, tocNumPages, tocPageNum, tocItems,
                 tocHeld, tocScan, tocResult, coordVars, workerVars, textVars, fontVars, sliceVars, appVars>>

\* pdf.getOutline() settles: a rejection is caught and [] returned, a
\* non-empty outline goes to parseOutlineToTOC, anything else to
\* detectTOCFromFonts, which reads pdf.numPages and starts its loop.
GetOutlineSettles ==
  /\ tocPc = "getOutline"
  /\ \E o \in OutlineResults :
       /\ tocOutline' = o
       /\ IF o.status = "rejected"
            THEN /\ TocCatch
                 /\ UNCHANGED <<tocCalls, tocNumPages, tocPageNum>>
            ELSE IF OutlinePresent(o)
              THEN /\ tocPc' = "parse"
                   /\ tocCalls' = tocCalls \cup {"parseOutlineToTOC"}
                   /\ UNCHANGED <<tocNumPages, tocPageNum, tocResult>>
              ELSE /\ tocCalls' = tocCalls \cup {"detectTOCFromFonts"}
                   /\ \E n \in ScanDocSizes :
                        /\ tocNumPages' = n
                        /\ tocPageNum' = 1
                        /\ IF 1 <= MaxPagesToScan(n)
                             THEN tocPc' = "getPage" /\ UNCHANGED tocResult
                             ELSE /\ tocPc' = "returned"
                                  /\ tocResult' = SortByPageIndex(UniqueItems(tocItems))
  /\ UNCHANGED <<tocItems, tocHeld, tocScan, coordVars, workerVars, textVars, fontVars, sliceVars, appVars>>

\* return await parseOutlineToTOC(pdf, outline)
ParseOutlineSettles ==
  /\ tocPc = "parse"
  /\ tocResult' = ParseOutlineToTOC(tocOutline.nodes, 1, Len(tocOutline.nodes), 0)
  /\ tocPc' = "returned"
  /\ UNCHANGED <<tocOutline, tocCalls, tocNumPages, tocPageNum, tocItems,
                 tocHeld, tocScan, coordVars, workerVars, textVars, fontVars, sliceVars, appVars>>

\* A scan that gives up at the first page it cannot get.
ScanGetPageSettlesAborts ==
  /\ tocPc = "getPage"
  /\ \/ /\ tocHeld' = tocHeld \cup {tocPageNum}
        /\ tocPc' = "getText"
        /\ UNCHANGED <<tocPageNum, tocItems, tocScan, tocResult>>
     \/ /\ ~IsLongDoc(tocNumPages)
        /\ tocScan' = Append(tocScan, "getPageRejected")
        /\ TocCatch
        /\ UNCHANGED <<tocHeld, tocItems, tocPageNum>>
  /\ UNCHANGED <<tocOutline, tocCalls, tocNumPages, coordVars, workerVars, textVars, fontVars, sliceVars, appVars>>

\* const page = await pdf.getPage(pageNum); a rejection is caught inside
\* the loop and the scan goes on with the next page
ScanGetPageSettles ==
  /\ tocPc = "getPage"
  /\ \/ /\ tocHeld' = tocHeld \cup {tocPageNum}
        /\ tocPc' = "getText"
        /\ UNCHANGED <<tocPageNum, tocItems, tocScan, tocResult>>
     \/ /\ ~IsLongDoc(tocNumPages)
        /\ tocScan' = Append(tocScan, "getPageRejected")
        /\ ScanAdvance(tocItems)
        /\ UNCHANGED tocHeld
  /\ UNCHANGED <<tocOutline, tocCalls, tocNumPages, coordVars, workerVars, textVars, fontVars, sliceVars, appVars>>

\* const textContent = await page.getTextContent(); candidates are pushed
\* and page.cleanup() is called; a rejection is caught inside the loop, which
\* goes on with the next page without calling page.cleanup()
ScanGetTextContentSettles ==
  /\ tocPc = "getText"
  /\ \/ \E items \in PageContents(tocNumPages, tocPageNum) :
          /\ tocScan' = Append(tocScan, IF Len(FontSizes(items)) = 0
                                          THEN "noFontSizes" ELSE "scanned")
          /\ tocHeld' = tocHeld \ {tocPageNum}
          /\ ScanAdvance(tocItems \o PageCandidates(items, tocPageNum))
     \/ /\ ~IsLongDoc(tocNumPages)
        /\ tocScan' = Append(tocScan, "getTextContentRejected")
        /\ ScanAdvance(tocItems)
        /\ UNCHANGED tocHeld
  /\ UNCHANGED <<tocOutline, tocCalls, tocNumPages, coordVars, workerVars, textVars, fontVars, sliceVars, appVars>>

\* TocSpec: one call of extractTableOfContents on any document: any
\* outline of up to MaxNodes nodes, up to MaxScanPages pages, any failure
\* of the PDF.js calls.
TocNext ==
  \/ TocCall
  \/ GetOutlineSettles
  \/ ParseOutlineSettles
  \/ ScanGetPageSettles
  \/ ScanGetTextContentSettles

TocSpec == Init /\ [][TocNext]_vars

\* ---- the heading filter on one page
\* FontSpec: the text items of one page, whatever they are, go through the
\* body of the scan loop.
MaxFontItems == 3

\* a string of n letters
Letters(n) == [i \in 1..n |-> "a"]

StrHeading == <<"A", "b", "c">>
StrShort == <<"A", "b">>
StrPaddedShort == <<Space, Space, "A", "b">>
StrPadded == <<Space, "A", "b", "c", Space>>
StrUpper == <<"A", "B", "C">>
StrDigits == <<"1", "2", "3">>
StrDashes == <<"-", "-", "-">>
Str100 == Letters(100)
Str101 == Letters(101)

\* text items: every kind of string at a large height, and the heading
\* string at heights around 1.3 times an average of 10
FontItems ==
  {[str |-> s, height |-> 20] :
     s \in {StrHeading, StrShort, StrPaddedShort, StrPadded, StrUpper,
            StrDigits, StrDashes, Str100, Str101}}
    \cup {[str |-> StrHeading, height |-> h] : h \in {0, 3, 7, 13}}

\* textContent = await page.getTextContent() of page pageNum
FontRead ==
  /\ fontPc = "idle"
  /\ fontPc' = "read"
  /\ \E n \in 1..MaxScanPages : fontPageNum' = n
  /\ \E items \in SeqUpTo(FontItems, MaxFontItems) : fontItems' = items
  /\ UNCHANGED <<fontHeadings, coordVars, workerVars, textVars, tocVars, sliceVars, appVars>>

\* the rest of the loop body: average, filter, items.push
FontFilter ==
  /\ fontPc = "read"
  /\ fontPc' = "done"
  /\ fontHeadings' = PageCandidates(fontItems, fontPageNum)
  /\ UNCHANGED <<fontPageNum, fontItems, coordVars, workerVars, textVars, tocVars, sliceVars, appVars>>

FontNext ==
  \/ FontRead
  \/ FontFilter

FontSpec == Init /\ [][FontNext]_vars

\* ------------------------------------------------------ section slicer
\* extractSectionText(fullText, startPage, endPage, totalPages), a function
\* of its arguments only.
MaxSliceLen == 4      \* characters of fullText
MaxSlicePages == 3    \* largest page number passed

\* Array.prototype.slice(from, to) for 0 <= from
ArraySliceFromOne(arr, from, to) == SubSeq(arr, from + 2, Min(to, Len(arr)))

\* Array.prototype.slice(from, to) for 0 <= from: elements from .. to - 1
ArraySlice(arr, from, to) == SubSeq(arr, from + 1, Min(to, Len(arr)))

\* startPage < 1 || endPage > totalPages || startPage > endPage || totalPages < 1
InvalidRange(startPage, endPage, totalPages) ==
  \/ startPage < 1
  \/ endPage > totalPages
  \/ startPage > endPage
  \/ totalPages < 1

\* the function without its first if statement
ExtractSectionTextAlwaysSplit(text, startPage, endPage, totalPages) ==
  IF InvalidRange(startPage, endPage, totalPages) THEN <<>>
  ELSE Join(ArraySlice(Split(text, Newline), startPage - 1, endPage), Newline)

\* extractSectionText: the whole-document test first, then the range
\* validation, then split, slice and join
ExtractSectionText(text, startPage, endPage, totalPages) ==
  IF startPage = 1 /\ endPage = totalPages THEN text
  ELSE IF InvalidRange(startPage, endPage, totalPages) THEN <<>>
  ELSE Join(ArraySlice(Split(text, Newline), startPage - 1, endPage), Newline)

SliceTexts == SeqUpTo({"a", Newline}, MaxSliceLen)
SlicePageArgs == (-1)..MaxSlicePages

\* a caller passes its arguments
SliceCall ==
  /\ slicePc = "idle"
  /\ slicePc' = "called"
  /\ \E text \in SliceTexts : sliceText' = text
  /\ \E s, e, t \in SlicePageArgs :
       /\ sliceStart' = s
       /\ sliceEnd' = e
       /\ sliceTotal' = t
  /\ UNCHANGED <<sliceOut, coordVars, workerVars, textVars, tocVars, fontVars, appVars>>

\* the function returns
SliceReturn ==
  /\ slicePc = "called"
  /\ slicePc' = "returned"
  /\ sliceOut' = ExtractSectionText(sliceText, sliceStart, sliceEnd, sliceTotal)
  /\ UNCHANGED <<sliceText, sliceStart, sliceEnd, sliceTotal,
                 coordVars, workerVars, textVars, tocVars, fontVars, appVars>>

SliceNext ==
  \/ SliceCall
  \/ SliceReturn

SliceSpec == Init /\ [][SliceNext]_vars

\* ---------------------------------------------------------- RSVP engine
\* One RSVPEngine, its callers and the browser's animation frames.  A word
\* list is given by its length (words[i] is the i-th word); timestamps are
\* milliseconds, in steps of FrameStep.
Wpms == {300, 600}

\* Math.floor(elapsed / msPerWord) with msPerWord = 60000 / wpm
WordsElapsed(elapsed, wpm) == (elapsed * wpm) \div MsPerMinute

\* events recorded after the last start()
WordEvent(i) == [kind |-> "word", index |-> i]
PauseEvent(i) == [kind |-> "pause", index |-> i]
DestroyEvent == [kind |-> "destroy", index |-> 0]

\* requestAnimationFrame(loop): the id and what the closure loop captured
Frame(id, n, wpm) == [id |-> id, words |-> n, wpm |-> wpm]

\* cancelAnimationFrame(this.rafId) when rafId is not null (0 is null)
CancelFrame == engPending' = {f \in engPending : f.id # engRafId}

\* start() without its first test.
EngStartAgain(n, wpm, startIndex) ==
  /\ engNextId <= MaxEvents
  /\ engRunning' = TRUE
  /\ engPausedWordIndex' = startIndex
  /\ engStartTime' = 0
  /\ engRafId' = engNextId
  /\ engNextId' = engNextId + 1
  /\ engPending' = engPending \cup {Frame(engNextId, n, wpm)}
  /\ engWords' = n
  /\ engWpm' = wpm
  /\ engLog' = <<>>
  /\ UNCHANGED engClock
  /\ UNCHANGED exceptEng

\* start(words, wpm, startIndex, onWordChange)
EngStart(n, wpm, startIndex) ==
  /\ engNextId <= MaxEvents
  /\ IF engRunning
       THEN UNCHANGED <<engRunning, engPausedWordIndex, engStartTime, engRafId,
                        engNextId, engPending, engWords, engWpm, engLog>>
       ELSE /\ engRunning' = TRUE
            /\ engPausedWordIndex' = startIndex
            /\ engStartTime' = 0
            /\ engRafId' = engNextId
            /\ engNextId' = engNextId + 1
            /\ engPending' = engPending \cup {Frame(engNextId, n, wpm)}
            /\ engWords' = n
            /\ engWpm' = wpm
  /\ engWpm' = wpm
            /\ engLog' = <<>>
  /\ UNCHANGED engClock
  /\ UNCHANGED exceptEng

\* the browser runs a requested frame: loop(timestamp), timestamps never
\* decreasing
EngFrame(timestamp) ==
  /\ timestamp >= engClock
  /\ engClock' = timestamp
  /\ \E f \in engPending :
     IF ~engRunning
       THEN /\ engPending' = engPending \ {f}
            /\ UNCHANGED <<engRunning, engPausedWordIndex, engStartTime, engRafId,
                           engNextId, engLog>>
       ELSE LET startTime == IF engStartTime = 0 THEN timestamp ELSE engStartTime
                elapsed == timestamp - startTime
                targetIndex == engPausedWordIndex + WordsElapsed(elapsed, f.wpm)
            IN /\ engNextId <= MaxEvents
               /\ Len(engLog) < MaxEvents
               /\ engStartTime' = startTime
               /\ IF targetIndex < f.words
                    THEN /\ engLog' = Append(engLog, WordEvent(targetIndex))
                         /\ engRafId' = engNextId
                         /\ engNextId' = engNextId + 1
                         /\ engPending' = (engPending \ {f})
                                            \cup {Frame(engNextId, f.words, f.wpm)}
                         /\ UNCHANGED engRunning
                    ELSE /\ engRunning' = FALSE
                         /\ engRafId' = 0
                         /\ engLog' = Append(engLog, WordEvent(f.words - 1))
                         /\ engPending' = engPending \ {f}
                         /\ UNCHANGED engNextId
               /\ UNCHANGED engPausedWordIndex
  /\ UNCHANGED <<engWords, engWpm>>
  /\ UNCHANGED exceptEng

\* pause(): cancel the frame, isRunning = false, return pausedWordIndex
EngPause ==
  /\ Len(engLog) < MaxEvents
  /\ IF engRafId # 0
       THEN CancelFrame /\ engRafId' = 0
       ELSE UNCHANGED <<engPending, engRafId>>
  /\ engRunning' = FALSE
  /\ engLog' = Append(engLog, PauseEvent(engPausedWordIndex))
  /\ UNCHANGED <<engPausedWordIndex, engStartTime, engNextId, engWords, engWpm, engClock>>
  /\ UNCHANGED exceptEng

\* destroy()
EngDestroy ==
  /\ Len(engLog) < MaxEvents
  /\ IF engRafId # 0
       THEN CancelFrame /\ engRafId' = 0
       ELSE UNCHANGED <<engPending, engRafId>>
  /\ engRunning' = FALSE
  /\ engStartTime' = 0
  /\ engPausedWordIndex' = 0
  /\ engLog' = Append(engLog, DestroyEvent)
  /\ UNCHANGED <<engNextId, engWords, engWpm, engClock>>
  /\ UNCHANGED exceptEng

FrameTimes == {FrameStep * k : k \in 1..(1 + MaxTicks)}

\* EngineSpec: any calls of start, pause and destroy, any frame times.
EngineNext ==
  \/ \E n \in 0..MaxWords : \E wpm \in Wpms : \E startIndex \in 0..n :
       EngStart(n, wpm, startIndex)
  \/ \E timestamp \in FrameTimes : EngFrame(timestamp)
  \/ EngPause
  \/ EngDestroy

EngineSpec == Init /\ [][EngineNext]_vars

\* ------------------------------------------------------- word grouping
\* groupWords(text, wordsPerGroup)
MaxGroupText == 5    \* characters of text

\* @param wordsPerGroup - Number of words per group (1-5)
MaxWordsPerGroup == 5

RECURSIVE SplitWhitespace(_)
\* text.split(/\s+/): the pieces between maximal runs of whitespace, with an
\* empty piece before a leading run and after a trailing one
SplitWhitespace(str) ==
  LET ws == {i \in 1..Len(str) : IsWhitespace(str[i])} IN
    IF ws = {} THEN <<str>>
    ELSE LET i == CHOOSE x \in ws : \A y \in ws : x <= y
             rest == {j \in (i + 1)..Len(str) : ~IsWhitespace(str[j])}
             j == IF rest = {} THEN Len(str) + 1
                  ELSE CHOOSE x \in rest : \A y \in rest : x <= y
         IN <<SubSeq(str, 1, i - 1)>> \o SplitWhitespace(SubSeq(str, j, Len(str)))

\* .filter(Boolean) on strings: the empty ones go
FilterBoolean(strs) == SelectSeq(strs, LAMBDA s : s # <<>>)

\* A chunk that stops one word early.
GroupChunkShort(words, i, wordsPerGroup) ==
  Join(ArraySlice(words, i, i + wordsPerGroup - 1), Space)

\* words.slice(i, i + wordsPerGroup).join(' ')
GroupChunk(words, i, wordsPerGroup) ==
  Join(ArraySlice(words, i, i + wordsPerGroup), Space)

GroupTexts == SeqUpTo({"a", "b", Space, Newline}, MaxGroupText)

\* the call up to the loop: split, filter, and the return for one word per
\* group
GroupCall ==
  /\ grpPc = "idle"
  /\ \E text \in GroupTexts : \E wordsPerGroup \in 1..MaxWordsPerGroup :
       LET words == FilterBoolean(SplitWhitespace(text)) IN
         /\ grpText' = text
         /\ grpPer' = wordsPerGroup
         /\ grpWords' = words
         /\ grpI' = 0
         /\ grpGroups' = <<>>
         /\ IF wordsPerGroup = 1
              THEN grpPc' = "returned" /\ grpOut' = words
              ELSE grpPc' = "loop" /\ grpOut' = <<>>
  /\ UNCHANGED exceptGrp

\* for (let i = 0; i < words.length; i += wordsPerGroup) { groups.push(...) }
\* one test of the loop condition, then the body or the return
GroupLoop ==
  /\ grpPc = "loop"
  /\ IF grpI < Len(grpWords)
       THEN /\ grpGroups' = Append(grpGroups, GroupChunk(grpWords, grpI, grpPer))
            /\ grpI' = grpI + grpPer
            /\ UNCHANGED <<grpPc, grpOut>>
       ELSE /\ grpPc' = "returned"
            /\ grpOut' = grpGroups
            /\ UNCHANGED <<grpI, grpGroups>>
  /\ UNCHANGED <<grpText, grpPer, grpWords>>
  /\ UNCHANGED exceptGrp

GroupNext ==
  \/ GroupCall
  \/ GroupLoop

GroupSpec == Init /\ [][GroupNext]_vars

\* the loop is not suspended forever: it is synchronous code
FairGroupSpec == GroupSpec /\ WF_vars(GroupLoop)

\* ------------------------------------------------ navigation and position
\* The page component's handlers on the document store and the reading
\* store.  wordsPerGroup is 1.
MaxDocs == 2         \* different files a user has
MaxAppPages == 2     \* pageCount of a file
MaxEntries == 2      \* entries of a file's outline

Filenames == {"a.pdf", "b.pdf"}
NoFilename == "null"

RECURSIVE WorkerText(_, _)
\* the text the extraction worker builds from the texts of pages from..n
WorkerText(pages, from) ==
  IF from > Len(pages) THEN <<>>
  ELSE AppendPage(<<>>, pages[from], from) \o WorkerText(pages, from + 1)

\* the text of page p of file id; page blank has no text
PageTextOf(id, p, blank) ==
  IF p = blank THEN <<>> ELSE <<DigitChars[id + 1], DigitChars[p + 1]>>

\* an uploaded file as extractText resolves it; id tells files of the same
\* name apart and is not seen by the program
File(id, name, pageCount, blank, outline) ==
  [id |-> id, filename |-> name, pageCount |-> pageCount,
   text |-> WorkerText([p \in 1..pageCount |-> PageTextOf(id, p, blank)], 1),
   outline |-> outline]

NoDocument == [id |-> 0, filename |-> NoFilename, pageCount |-> 0, text |-> <<>>,
               outline |-> <<>>]

\* files for position keeping: every id under every name
PosFiles == {File(id, name, MaxAppPages, 0, <<>>) : id \in 1..MaxDocs, name \in Filenames}

\* files for navigation: any outline of up to MaxEntries entries
OutlinesOf(pageCount) ==
  UNION {{[k \in 1..n |-> [title |-> TitleOf(k), pageIndex |-> pi[k], level |-> 0]] :
            pi \in [1..n -> 0..(pageCount - 1)]} : n \in 0..MaxEntries}

NavFiles ==
  UNION {{File(1, "a.pdf", pc, blank, o) : blank \in 0..pc, o \in OutlinesOf(pc)} :
         pc \in 1..MaxAppPages}

NoSection == [set |-> FALSE, startPage |-> 0, endPage |-> 0, text |-> <<>>]
NoSaved == [set |-> FALSE, filename |-> NoFilename, sectionStart |-> 0,
            sectionEnd |-> 0, wordIndex |-> 0, doc |-> 0]
NoCall == [handler |-> "none", startPage |-> 0, endPage |-> 0,
           sectionText |-> <<>>, restoredNull |-> TRUE, restored |-> 0]

\* A setSection that returns the whole text for the whole document.
SetSectionWholeText(text, pageCount, startPage, endPage) ==
  IF startPage < 1 \/ endPage > pageCount \/ startPage > endPage
    THEN NoSection
    ELSE [set |-> TRUE, startPage |-> startPage, endPage |-> endPage,
          text |-> IF startPage = 1 /\ endPage = pageCount THEN text
                   ELSE Join(ArraySlice(Split(text, Newline), startPage - 1, endPage),
                             Newline)]

\* setSection(startPage, endPage): the value of currentSection afterwards
SetSection(text, pageCount, startPage, endPage) ==
  IF startPage < 1 \/ endPage > pageCount \/ startPage > endPage
    THEN NoSection
    ELSE [set |-> TRUE, startPage |-> startPage, endPage |-> endPage,
          text |-> Join(ArraySlice(Split(text, Newline), startPage - 1, endPage),
                        Newline)]

\* A key of filename alone.
KeyMatchFilenameOnly(saved, filename, section) == saved.filename = filename

\* saved.filename === doc.filename && saved.sectionStart ===
\* doc.currentSection?.startPage && saved.sectionEnd === doc.currentSection?.endPage
KeyMatch(saved, filename, section) ==
  /\ saved.filename = filename
  /\ section.set /\ saved.sectionStart = section.startPage
  /\ section.set /\ saved.sectionEnd = section.endPage

\* restorePosition(): null, or the saved word index
RestorePosition(saved, filename, section) ==
  IF ~saved.set THEN [null |-> TRUE, index |-> 0]
  ELSE IF KeyMatch(saved, filename, section)
    THEN [null |-> FALSE, index |-> saved.wordIndex]
    ELSE [null |-> TRUE, index |-> 0]

\* groupWords(text, wordsPerGroup).length
GroupedWordCount(text) == Len(FilterBoolean(SplitWhitespace(text)))

\* the common end of the three selection handlers: initialize(groupedWords),
\* doc.setSection(start, end), restorePosition(), setCurrentWord when the
\* saved index is below groupedWords.length, setView('reading')
SelectSection(handler, readText, startPage, endPage) ==
  LET section == SetSection(appDoc.text, appDoc.pageCount, startPage, endPage)
      r == RestorePosition(appSaved, appDoc.filename, section)
      count == GroupedWordCount(readText)
  IN /\ appSection' = section
     /\ appWordCount' = count
     /\ appIndex' = IF ~r.null /\ r.index < count THEN r.index ELSE 0
     /\ appView' = "reading"
     /\ appCall' = [handler |-> handler, startPage |-> startPage, endPage |-> endPage,
                    sectionText |-> readText, restoredNull |-> r.null,
                    restored |-> r.index]
     /\ UNCHANGED <<appDoc, appSaved>>

\* handlePDFUpload(file) when the extraction succeeds: setDocument,
\* initialize(groupWords(result.text)), setView('navigation')
AppUpload(files) ==
  /\ appView = "upload"
  /\ \E f \in files :
       /\ appDoc' = f
       /\ appWordCount' = GroupedWordCount(f.text)
  /\ appIndex' = 0
  /\ appView' = "navigation"
  /\ appCall' = NoCall
  /\ UNCHANGED <<appSection, appSaved>>
  /\ UNCHANGED exceptApp

\* handleTOCSelect(item), item being the i-th entry of the outline
AppTOCSelect(i) ==
  /\ appView = "navigation"
  /\ i \in 1..Len(appDoc.outline)
  /\ LET item == appDoc.outline[i]
         endPage == IF i + 1 <= Len(appDoc.outline)
                      THEN appDoc.outline[i + 1].pageIndex ELSE appDoc.pageCount
         sectionText == ExtractSectionText(appDoc.text, item.pageIndex + 1, endPage,
                                           appDoc.pageCount)
     IN SelectSection("toc", sectionText, item.pageIndex + 1, endPage)
  /\ UNCHANGED exceptApp

\* handleRangeSelect(start, end), called by PageRangeSelector with a range
\* it has validated
AppRangeSelect(start, end) ==
  /\ appView = "navigation"
  /\ 1 <= start /\ start <= appDoc.pageCount
  /\ start <= end /\ end <= appDoc.pageCount
  /\ SelectSection("range",
                   ExtractSectionText(appDoc.text, start, end, appDoc.pageCount),
                   start, end)
  /\ UNCHANGED exceptApp

\* handleFullDocument()
AppFullDocument ==
  /\ appView = "navigation"
  /\ SelectSection("full", appDoc.text, 1, appDoc.pageCount)
  /\ UNCHANGED exceptApp

\* savePosition(filename, section)
SavePosition ==
  appSaved' = [set |-> TRUE, filename |-> appDoc.filename,
               sectionStart |-> appSection.startPage,
               sectionEnd |-> appSection.endPage,
               wordIndex |-> appIndex, doc |-> appDoc.id]

\* handleBackToNavigation(), from the button or the Escape key of the
\* reading view
AppBack ==
  /\ appView = "reading"
  /\ IF appDoc.filename # NoFilename
       THEN /\ IF appSection.set THEN SavePosition ELSE UNCHANGED appSaved
            /\ appView' = "navigation"
       ELSE UNCHANGED <<appSaved, appView>>
  /\ appCall' = NoCall
  /\ UNCHANGED <<appDoc, appSection, appIndex, appWordCount>>
  /\ UNCHANGED exceptApp

\* the engine's callback while reading: setCurrentWord(words[index], index)
AppRead(index) ==
  /\ appView = "reading"
  /\ 0 <= index /\ index < appWordCount
  /\ appIndex' = index
  /\ appCall' = NoCall
  /\ UNCHANGED <<appDoc, appSection, appSaved, appWordCount, appView>>
  /\ UNCHANGED exceptApp

\* the page is loaded again: only savedPosition is persisted
AppReload ==
  /\ appDoc' = NoDocument
  /\ appSection' = NoSection
  /\ appIndex' = 0
  /\ appWordCount' = 0
  /\ appView' = "upload"
  /\ appCall' = NoCall
  /\ UNCHANGED appSaved
  /\ UNCHANGED exceptApp

\* PosSpec: files told apart by id and name, read by range or in full,
\* left, loaded again.
PosNext ==
  \/ AppUpload(PosFiles)
  \/ \E start, end \in 1..MaxAppPages : AppRangeSelect(start, end)
  \/ AppFullDocument
  \/ AppBack
  \/ \E index \in 0..MaxAppPages : AppRead(index)
  \/ AppReload

PosSpec == Init /\ [][PosNext]_vars

\* NavSpec: one file with any outline, read by heading or by range.
NavNext ==
  \/ AppUpload(NavFiles)
  \/ \E i \in 1..MaxEntries : AppTOCSelect(i)
  \/ \E start, end \in 1..MaxAppPages : AppRangeSelect(start, end)
  \/ AppBack
  \/ AppReload

NavSpec == Init /\ [][NavNext]_vars

\* ------------------------------------------------------------- properties
Called(j) == j < nextJob
Started(j) == wst[j] # "none"

\* C1: the promise of every extractText call that passed validation
\* eventually settles, and once it has an outcome that outcome never changes
\* (it is never both resolved and rejected).
C1_SettlesExactlyOnce ==
  /\ \A j \in Jobs : (promise[j] = "pending") ~> Settled(j)
  /\ [][\A j \in Jobs : Settled(j) => promise'[j] = promise[j]]_vars

\* C1 witness: a call that was cancelled, whose buffer read then completed,
\* and whose promise is settled.
C1_Witness ==
  \E j \in Jobs : cancelled[j] /\ read[j] = "done" /\ Settled(j)

\* C2: a job cancelled while in flight is rejected with a cancellation
\* outcome of its own, not with the timeout error nor a read failure.
C2_CancelRejectsDistinctly ==
  \A j \in Jobs : (cancelled[j] /\ Settled(j)) => promise[j] = "rej_cancelled"

\* C3: once cancel() or the timeout of a job has run, no message of that
\* job's worker is handled any more: onmessage does not run for it and
\* onProgress is not called.
C3_NoReactionAfterTeardown ==
  [][\A j \in Jobs :
       (cancelled[j] \/ timer[j] = "fired")
         => (delivered'[j] = delivered[j] /\ forwarded'[j] = forwarded[j])]_vars

\* C4: terminate() is called at most once on every worker, and exactly once
\* on the worker of every job that has ended or was cancelled.
C4_TerminatedExactlyOnce ==
  \A j \in Jobs :
    /\ termCalls[j] <= 1
    /\ (Started(j) /\ (Settled(j) \/ cancelled[j])) => termCalls[j] = 1

\* C5: at most one worker created by the PDFProcessor is alive at any time.
C5_AtMostOneWorkerAlive ==
  Cardinality({j \in Jobs : wst[j] = "alive"}) <= 1

\* C6: once the 30 s timer of a job has fired, its promise is rejected with
\* the timeout error and its worker is terminated, exactly once.
C6_TimeoutRejectsAndTerminates ==
  \A j \in Jobs :
    timer[j] = "fired"
      => (promise[j] = "rej_timeout" /\ wst[j] = "terminated" /\ termCalls[j] = 1)

\* C7: a job ended by a 'complete' or 'error' message, by the worker's
\* onerror or by a buffer-read failure has its timer cleared, so the timeout
\* callback cannot run after that teardown.
C7_TimerClearedOnEnd ==
  \A j \in Jobs :
    promise[j] \in {"resolved", "rej_error", "rej_workererror", "rej_read"}
      => timer[j] = "cleared"

\* C7 witness: a job resolved by a 'complete' message.
C7_Witness ==
  \E j \in Jobs : promise[j] = "resolved" /\ timer[j] = "cleared"

\* C8: a file larger than 50 MiB is refused with the size error and nothing
\* is started for it (no worker, no timer, no buffer read); a file of
\* exactly 50 MiB is not refused for its size.
C8_SizeLimit ==
  \A j \in Jobs : Called(j) =>
    /\ file[j].size > 52428800
         => (promise[j] = "rej_size" /\ wst[j] = "none"
             /\ timer[j] = "none" /\ read[j] = "none")
    /\ file[j].size <= 52428800 => promise[j] # "rej_size"

\* C8 witness: a call with a file one byte over the limit was refused.
C8_Witness ==
  \E j \in Jobs : file[j].size = 52428801 /\ promise[j] = "rej_size"

\* C9 as stated: a file whose declared (MIME) type does not indicate a PDF
\* is refused with the unsupported-type error and no worker is created.
C9_DeclaredTypeRejected ==
  \A j \in Jobs : (Called(j) /\ ~Includes(file[j].type, StrPdf))
    => (promise[j] = "rej_type" /\ wst[j] = "none")

\* C9 amended: a call is refused with the unsupported-type error exactly when
\* the file is within the size limit, its type does not contain 'pdf' and
\* its name, lower-cased, does not end in '.pdf'; a call refused for size or
\* type has no worker, no timer and no buffer read.
C9_TypeOrExtension ==
  \A j \in Jobs : Called(j) =>
    /\ promise[j] = "rej_type"
         <=> /\ file[j].size <= 52428800
             /\ ~Includes(file[j].type, StrPdf)
             /\ ~EndsWith(ToLowerCase(file[j].name), StrDotPdf)
    /\ promise[j] \in {"rej_size", "rej_type"}
         => (wst[j] = "none" /\ timer[j] = "none" /\ read[j] = "none")

\* C9 witness: a file within the limit, neither PDF by type nor by name,
\* was refused with the unsupported-type error.
C9_Witness ==
  \E j \in Jobs :
    /\ file[j].size = 1024 /\ file[j].type = MimeText /\ file[j].name = NameTxt
    /\ promise[j] = "rej_type"

\* C11: a run that failed while opening the document or on a page has
\* posted an 'error' response and no 'complete' response; a 'complete'
\* response of a run comes after the progress responses of all its pages
\* 1..pageCount; and a promise is resolved only with such a full result.
C11_NoPartialResult ==
  \A j, b \in Jobs :
    /\ run[j][b].pc = "failed"
         => /\ \E i \in 1..Len(sent[j]) : sent[j][i] = ErrorMsg(b)
            /\ \A i \in 1..Len(sent[j]) :
                 ~(sent[j][i].type = "complete" /\ sent[j][i].run = b)
    /\ \A i \in 1..Len(sent[j]) :
         (sent[j][i].type = "complete" /\ sent[j][i].run = b)
           => /\ sent[j][i].den = run[j][b].pageCount
              /\ \A k \in 1..run[j][b].pageCount :
                   \E h \in 1..(i - 1) :
                     sent[j][h] = ProgressMsg(b, k, run[j][b].pageCount)
    /\ (promise[j] = "resolved" /\ resultOf[j] = b)
         => /\ run[j][b].pc = "done"
            /\ \E i \in 1..delivered[j] :
                 sent[j][i] = CompleteMsg(b, run[j][b].pageCount)

\* C11 witness: the second page of a three-page document failed after the
\* first page was extracted, and the promise was rejected with the error.
C11_Witness ==
  \E j \in Jobs :
    /\ run[j][j].pc = "failed" /\ run[j][j].pageCount = 3
    /\ run[j][j].pageNum = 2
    /\ promise[j] = "rej_error"

\* C10: the progress messages of a worker come in page order with
\* non-decreasing values, and a 'complete' or 'error' message is the last
\* message posted: at most one of them, with nothing after it.
C10_TerminalMessageLast ==
  \A j \in Jobs :
    /\ \A i \in 1..Len(sent[j]) :
         sent[j][i].type \in {"complete", "error"} => i = Len(sent[j])
    /\ \A i, k \in 1..Len(sent[j]) :
         (i < k /\ sent[j][i].type = "progress" /\ sent[j][k].type = "progress")
           => /\ sent[j][i].num < sent[j][k].num
              /\ sent[j][i].num * sent[j][k].den <= sent[j][k].num * sent[j][i].den

\* C12: for a successful extraction of a document of n >= 1 pages none of
\* whose page texts contains a newline, splitting the result text on newline
\* gives exactly n segments, segment i being the text of page i, and
\* result.pageCount = n.
C12_OneSegmentPerPage ==
  (/\ textResult.built
   /\ textResult.pageCount >= 1
   /\ \A i \in 1..Len(pageTexts) :
        \A k \in 1..Len(pageTexts[i]) : pageTexts[i][k] # Newline)
    => /\ textResult.pageCount = textPageCount
       /\ Split(textResult.text, Newline) = pageTexts
       /\ Len(Split(textResult.text, Newline)) = textResult.pageCount

\* C13: during the heuristic TOC scan at most one page is held at any time:
\* a page obtained from getPage has been released by cleanup() before the
\* next page is requested.
C13_AtMostOnePageHeld ==
  /\ Cardinality(tocHeld) <= 1
  /\ tocPc = "getPage" => tocHeld = {}

\* C14: when the extraction of a document has finished, with the result or
\* with a failure, every page that was obtained from getPage has been
\* released by cleanup().
C14_AllPagesReleased ==
  \A j, b \in Jobs : run[j][b].pc \in {"done", "failed"} => run[j][b].held = {}

\* C15: extractTableOfContents never throws, whichever of getOutline,
\* destination resolution, getPage and getTextContent fails: it returns a
\* list, the empty list when getOutline itself fails.
C15_TocNeverThrows ==
  /\ tocPc # "threw"
  /\ tocOutline.status = "rejected" => (tocPc = "returned" /\ tocResult = <<>>)

\* C15 witness: pdf.getOutline() rejected and the call returned.
C15_Witness ==
  tocOutline.status = "rejected" /\ tocPc = "returned" /\ tocCalls = {}

\* title of the entry made for node i
EntryTitle(nodes, i) == IF nodes[i].title = <<>> THEN Untitled ELSE nodes[i].title

\* the destination of the node cannot be resolved: the lookup of its name
\* returns nothing, or getDestination or getPageIndex fails
Unresolvable(dest) == dest.lookup \in {"rejects", "null"} \/ dest.index = Rejects

\* getDestination or getPageIndex fails for this destination
ResolutionFails(dest) == dest.lookup = "rejects" \/ dest.index = Rejects

\* node a is node i or one of its ancestors
AncestorOrSelf(nodes, a, i) ==
  a <= i /\ \A h \in (a + 1)..i : nodes[h].depth > nodes[a].depth

\* the nodes that are reached and kept: no failure on the node or above it
KeptNodes(nodes) ==
  SelectSeq([i \in 1..Len(nodes) |-> i],
            LAMBDA i : \A a \in 1..i :
                         AncestorOrSelf(nodes, a, i) => ~ResolutionFails(nodes[a].dest))

C17_PageIndexNonDecreasing ==
  tocPc = "returned"
    => \A i, k \in 1..Len(tocResult) :
         i < k => tocResult[i].pageIndex <= tocResult[k].pageIndex

\* C18: the font heuristic runs exactly when getOutline gave no outline or
\* an empty one; with a non-empty outline it does not run and no page is
\* scanned, whatever the outline resolves to; and what is returned after
\* the heuristic ran consists of heuristic candidates only.
C18_HeuristicIffNoOutline ==
  /\ tocOutline.status \in {"none", "rejected"} => tocCalls = {}
  /\ tocOutline.status \in {"null", "list"}
       => (("detectTOCFromFonts" \in tocCalls)
             <=> (tocOutline.status = "null" \/ tocOutline.nodes = <<>>))
  /\ (tocOutline.status = "list" /\ tocOutline.nodes # <<>>)
       => (tocCalls = {"parseOutlineToTOC"} /\ tocScan = <<>> /\ tocItems = <<>>)
  /\ (tocPc = "returned" /\ "detectTOCFromFonts" \in tocCalls)
       => \A i \in 1..Len(tocResult) :
            \E k \in 1..Len(tocItems) : tocResult[i] = tocItems[k]

\* C18 witness: a two-node outline none of whose nodes could be resolved:
\* the empty list was returned and the heuristic did not run.
C18_Witness ==
  /\ tocPc = "returned"
  /\ Len(tocOutline.nodes) = 2
  /\ \A i \in 1..2 : ResolutionFails(tocOutline.nodes[i].dest)
  /\ tocResult = <<>>
  /\ "detectTOCFromFonts" \notin tocCalls

\* position in items of the first element with the pageIndex and title of x
FirstAt(items, x) ==
  CHOOSE k \in 1..Len(items) :
    /\ items[k].pageIndex = x.pageIndex /\ items[k].title = x.title
    /\ \A h \in 1..(k - 1) :
         ~(items[h].pageIndex = x.pageIndex /\ items[h].title = x.title)

\* C20: the list the heuristic returns has no two entries with the same
\* (pageIndex, title); every candidate is represented by the first
\* candidate with its pageIndex and title; the entries are in ascending
\* pageIndex order, those of one page in the order they were found.
C20_UniqueSortedHeuristic ==
  (tocPc = "returned" /\ "detectTOCFromFonts" \in tocCalls)
    => /\ \A i, k \in 1..Len(tocResult) :
            i < k => ~(/\ tocResult[i].pageIndex = tocResult[k].pageIndex
                       /\ tocResult[i].title = tocResult[k].title)
       /\ \A h \in 1..Len(tocItems) :
            \E i \in 1..Len(tocResult) :
              /\ tocResult[i].pageIndex = tocItems[h].pageIndex
              /\ tocResult[i].title = tocItems[h].title
       /\ \A i \in 1..Len(tocResult) :
            /\ \E h \in 1..Len(tocItems) : tocItems[h] = tocResult[i]
            /\ tocResult[i] = tocItems[FirstAt(tocItems, tocResult[i])]
       /\ \A i, k \in 1..Len(tocResult) :
            i < k => /\ tocResult[i].pageIndex <= tocResult[k].pageIndex
                     /\ tocResult[i].pageIndex = tocResult[k].pageIndex
                          => FirstAt(tocItems, tocResult[i]) < FirstAt(tocItems, tocResult[k])

\* C20 witness: page 2 gave the same heading twice at different sizes, with
\* another heading between, after a heading on page 1.
C20_Witness ==
  /\ tocPc = "returned"
  /\ Len(tocItems) = 4 /\ Len(tocResult) = 3
  /\ tocItems[1].pageIndex = 0
  /\ tocItems[2].pageIndex = 1
  /\ tocItems[2].title = tocItems[4].title
  /\ tocItems[2].title # tocItems[3].title

\* the text has no lower-case letter: it is entirely upper-case, or has no
\* letters at all (a page number)
EntirelyUpperCase(text) == \A i \in 1..Len(text) : ~InChars(text[i], LowerChars)

\* C19: the heuristic makes an entry of a text item exactly when the item's
\* height exceeds 1.3 times the average height of the page's items of
\* height > 0, its trimmed text has 3 to 100 characters, contains a letter
\* or digit, and is not entirely upper-case; the entries of a page are those
\* items, in order, under their trimmed text.
C19_HeadingIffFourFilters ==
  fontPc = "done"
    => LET n == Len(fontItems)
           measured == {i \in 1..n : fontItems[i].height > 0}
           total == SumHeights([i \in 1..n |-> fontItems[i].height])
           Qualifies(i) ==
             /\ 10 * fontItems[i].height * Cardinality(measured) > 13 * total
             /\ Len(Trim(fontItems[i].str)) \in 3..100
             /\ HasAlphanumeric(Trim(fontItems[i].str))
             /\ ~EntirelyUpperCase(Trim(fontItems[i].str))
           q == SelectSeq([i \in 1..n |-> i], Qualifies)
       IN /\ Len(fontHeadings) = Len(q)
          /\ \A k \in 1..Len(fontHeadings) :
               /\ fontHeadings[k].title = Trim(fontItems[q[k]].str)
               /\ fontHeadings[k].pageIndex = fontPageNum - 1

\* C19 witness: on a page with items of heights 13, 7 and 20 (average
\* 40/3) the padded heading of height 20 became an entry under its trimmed
\* text, and the item of height 13 did not.
C19_Witness ==
  /\ fontPc = "done"
  /\ fontItems = <<[str |-> StrHeading, height |-> 13],
                   [str |-> StrHeading, height |-> 7],
                   [str |-> StrPadded, height |-> 20]>>
  /\ Len(fontHeadings) = 1
  /\ fontHeadings[1].title = StrHeading

SegmentsRejoined(text, startPage, endPage) ==
  LET segs == Split(text, Newline)
      last == Min(endPage, Len(segs))
  IN Join([i \in 1..(last - startPage + 1) |-> segs[startPage - 1 + i]], Newline)

\* C22 as stated: for every fullText and every range
\* 1 <= startPage <= endPage <= totalPages the function returns the
\* newline-separated segments startPage - 1 .. endPage - 1 of fullText,
\* rejoined with newlines.
C22_ValidRangeGivesSegments ==
  (slicePc = "returned" /\ 1 <= sliceStart /\ sliceStart <= sliceEnd
     /\ sliceEnd <= sliceTotal)
    => sliceOut = SegmentsRejoined(sliceText, sliceStart, sliceEnd)

\* C22 amended: for a valid range other than the whole document the
\* function returns those segments rejoined; for the whole document
\* (startPage = 1, endPage = totalPages) it returns fullText itself, which
\* is the same string exactly when fullText has at most totalPages segments.
C22_SegmentsUnlessWholeDocument ==
  (slicePc = "returned" /\ 1 <= sliceStart /\ sliceStart <= sliceEnd
     /\ sliceEnd <= sliceTotal)
    => /\ ~(sliceStart = 1 /\ sliceEnd = sliceTotal)
            => sliceOut = SegmentsRejoined(sliceText, sliceStart, sliceEnd)
       /\ (sliceStart = 1 /\ sliceEnd = sliceTotal)
            => /\ sliceOut = sliceText
               /\ (sliceOut = SegmentsRejoined(sliceText, sliceStart, sliceEnd))
                    <=> (Len(Split(sliceText, Newline)) <= sliceTotal)

\* C22 witness: pages 2..3 of the three-page text "a", "", "a".
C22_Witness ==
  /\ slicePc = "returned"
  /\ sliceText = <<"a", Newline, Newline, "a">>
  /\ sliceStart = 2 /\ sliceEnd = 3 /\ sliceTotal = 3
  /\ sliceOut = <<Newline, "a">>

\* C23: for every fullText and every totalPages >= 1,
\* extractSectionText(fullText, 1, totalPages, totalPages) is fullText.
C23_WholeDocumentUnchanged ==
  (slicePc = "returned" /\ sliceTotal >= 1 /\ sliceStart = 1 /\ sliceEnd = sliceTotal)
    => sliceOut = sliceText

\* C23 witness: the whole of a two-page document whose text has three
\* segments came back as it was.
C23_Witness ==
  /\ slicePc = "returned"
  /\ sliceText = <<"a", Newline, "a", Newline>>
  /\ sliceStart = 1 /\ sliceEnd = 2 /\ sliceTotal = 2
  /\ sliceOut = sliceText

\* the positions of call c in a job's list of calls
CallsOf(r, c) == {i \in 1..Len(r.calls) : r.calls[i] = c}

\* the job's getDocument promise rejected
OpenFailed(r) == r.pc = "failed" /\ r.calls = <<"getDocument">>

\* C24: a job that opened the document invoked TOC discovery exactly once,
\* right after the document was opened and before any page was requested;
\* a job whose opening failed (or has not finished) never invoked it.
C24_TocOnceAfterOpen ==
  \A j, b \in Jobs :
    LET r == run[j][b]
        toc == CallsOf(r, "extractTableOfContents")
    IN /\ Cardinality(toc) <= 1
       /\ \A i \in toc :
            /\ i = 2
            /\ r.calls[1] = "getDocument"
            /\ \A k \in CallsOf(r, "getPage") \cup CallsOf(r, "getTextContent") : i < k
       /\ r.pc \in {"toc", "getPage", "getText", "done"} => Cardinality(toc) = 1
       /\ (r.pageNum >= 1 \/ r.held # {}) => Cardinality(toc) = 1
       /\ r.pc \in {"idle", "open"} => toc = {}
       /\ OpenFailed(r) => toc = {}

\* C24 witness: a job went through all its pages after one TOC discovery.
C24_Witness ==
  \E j \in Jobs :
    /\ run[j][j].pc = "done"
    /\ run[j][j].calls = <<"getDocument", "extractTableOfContents",
                           "getPage", "getTextContent", "getPage", "getTextContent">>

\* the messages worker j posted from the handler run for request b
PostedBy(j, b) == SelectSeq(sent[j], LAMBDA m : m.run = b)

ProgressAmong(msgs, n) ==
  SelectSeq(SubSeq(msgs, 1, n), LAMBDA m : m.type = "progress")

\* C26: a job that completed a document of n >= 1 pages posted exactly n
\* progress messages, the k-th carrying k/n*100, each above 0 and at most
\* 100, the one right before 'complete' carrying 100; and the coordinator
\* forwarded to onProgress every progress message it received, once,
\* unchanged and in order.
C26_ProgressValues ==
  /\ \A j, b \in Jobs :
       (run[j][b].pc = "done" /\ run[j][b].pageCount >= 1)
         => LET n == run[j][b].pageCount
                prog == SelectSeq(PostedBy(j, b), LAMBDA m : m.type = "progress")
            IN /\ Len(prog) = n
               /\ \A k \in 1..n :
                    /\ prog[k].num = k /\ prog[k].den = n
                    /\ 0 < 100 * prog[k].num
                    /\ 100 * prog[k].num <= 100 * prog[k].den
               /\ \A i \in 1..Len(sent[j]) :
                    (sent[j][i].type = "complete" /\ sent[j][i].run = b)
                      => /\ i > 1
                         /\ sent[j][i - 1].type = "progress"
                         /\ sent[j][i - 1].run = b
                         /\ sent[j][i - 1].num = sent[j][i - 1].den
  /\ \A j \in Jobs :
       LET got == ProgressAmong(sent[j], delivered[j])
       IN /\ Len(forwarded[j]) = Len(got)
          /\ \A k \in 1..Len(got) : forwarded[j][k] = <<got[k].num, got[k].den>>

\* C26 witness: three pages, three values forwarded, the job resolved.
C26_Witness ==
  \E j \in Jobs :
    /\ run[j][j].pc = "done" /\ run[j][j].pageCount = 3
    /\ forwarded[j] = << <<1, 3>>, <<2, 3>>, <<3, 3>> >>
    /\ promise[j] = "resolved"

ScanFailed(p) == tocScan[p] \in {"getPageRejected", "getTextContentRejected"}

\* C28: a getPage or getTextContent failure on one page of the heuristic
\* scan is caught: the page contributes no entry, the scan goes on to the
\* last page to scan, and the entries found on the other pages are returned.
C28_ScanFailureSkipsPage ==
  /\ "detectTOCFromFonts" \in tocCalls => tocPc # "threw"
  /\ (tocPc = "returned" /\ "detectTOCFromFonts" \in tocCalls)
       => /\ Len(tocScan) = Min(ScanLimit, tocNumPages)
          /\ \A p \in 1..Len(tocScan) :
               ScanFailed(p) => \A k \in 1..Len(tocResult) : tocResult[k].pageIndex # p - 1
          /\ {<<tocResult[k].pageIndex, tocResult[k].title>> : k \in 1..Len(tocResult)}
               = {<<tocItems[k].pageIndex, tocItems[k].title>> : k \in 1..Len(tocItems)}
          /\ \A k \in 1..Len(tocResult) :
               \E h \in 1..Len(tocItems) : tocItems[h] = tocResult[k]

\* C28 witness: page 1 could not be obtained, page 2 gave an entry.
C28_Witness ==
  /\ tocPc = "returned"
  /\ tocScan = <<"getPageRejected", "scanned">>
  /\ Len(tocResult) >= 1
  /\ tocResult[1].pageIndex = 1

\* C30: the heuristic scan requests only pages 1..min(20, pageCount): every
\* entry it returns has pageIndex < min(20, pageCount), and a page whose
\* items all have height 0 contributes no entry.
C30_ScanAtMostTwentyPages ==
  "detectTOCFromFonts" \in tocCalls
    => /\ tocPc \in {"getPage", "getText"}
            => (1 <= tocPageNum /\ tocPageNum <= 20 /\ tocPageNum <= tocNumPages)
       /\ \A p \in tocHeld : 1 <= p /\ p <= 20 /\ p <= tocNumPages
       /\ Len(tocScan) <= 20 /\ Len(tocScan) <= tocNumPages
       /\ \A k \in 1..Len(tocItems) :
            /\ 0 <= tocItems[k].pageIndex
            /\ tocItems[k].pageIndex < 20
            /\ tocItems[k].pageIndex < tocNumPages
       /\ \A k \in 1..Len(tocResult) :
            /\ 0 <= tocResult[k].pageIndex
            /\ tocResult[k].pageIndex < 20
            /\ tocResult[k].pageIndex < tocNumPages
       /\ \A p \in 1..Len(tocScan) :
            tocScan[p] = "noFontSizes"
              => \A k \in 1..Len(tocItems) : tocItems[k].pageIndex # p - 1

\* C30 witness: a 21-page document was scanned up to page 20, whose items
\* all have height 0; the last entry is on page 19 (index 18).
C30_Witness ==
  /\ tocPc = "returned"
  /\ tocNumPages = 21
  /\ Len(tocScan) = 20
  /\ tocScan[20] = "noFontSizes"
  /\ Len(tocResult) = 10
  /\ tocResult[10].pageIndex = 18

\* the positions of the items of a page that pass the heading test, given
\* the sum and the number of its positive heights
HeadingPositions(items) ==
  LET fontSizes == FontSizes(items)
  IN SelectSeq([i \in 1..Len(items) |-> i],
               LAMBDA i : IsHeading(items[i], SumHeights(fontSizes), Len(fontSizes)))

\* C29: a heuristic entry has level 0 when its font size is at least 2.0
\* times the page average, level 1 when at least 1.5 and below 2.0 times,
\* and level 2 otherwise (above 1.3 and below 1.5 times); no other level.
C29_LevelByRatio ==
  fontPc = "done"
    => LET q == HeadingPositions(fontItems)
           count == Len(FontSizes(fontItems))
           total == SumHeights(FontSizes(fontItems))
       IN /\ Len(fontHeadings) = Len(q)
          /\ \A k \in 1..Len(fontHeadings) :
               LET scaled == 10 * fontItems[q[k]].height * count
                   level == fontHeadings[k].level
               IN /\ level \in {0, 1, 2}
                  /\ level = 0 <=> scaled >= 20 * total
                  /\ level = 1 <=> (scaled >= 15 * total /\ scaled < 20 * total)
                  /\ level = 2 <=> (scaled > 13 * total /\ scaled < 15 * total)

\* C29 witness: heights 20, 7 and 3 (average 10): the item of height 20 is
\* exactly twice the average and has level 0.
C29_Witness ==
  /\ fontPc = "done"
  /\ fontItems = <<[str |-> StrHeading, height |-> 20],
                   [str |-> StrHeading, height |-> 7],
                   [str |-> StrHeading, height |-> 3]>>
  /\ Len(fontHeadings) = 1
  /\ fontHeadings[1].level = 0

\* the positions of the words delivered to onWordChange before event k
WordsBefore(k) == {h \in 1..(k - 1) : engLog[h].kind = "word"}

Max(S) == CHOOSE x \in S : \A y \in S : y <= x

\* C31: pause() returns the index of the word most recently delivered to
\* onWordChange (for a list that has words).
C31_PauseReturnsLastDelivered ==
  \A k \in 1..Len(engLog) :
    (engWords >= 1 /\ engLog[k].kind = "pause" /\ WordsBefore(k) # {})
      => engLog[k].index = engLog[Max(WordsBefore(k))].index

\* C32: when the target index computed from the frame time reaches the end
\* of the list the engine delivers the last word, is no longer running and
\* has no frame requested; otherwise it delivers the target word and has
\* requested exactly one frame; and there is never more than one frame
\* requested, also when start() is called on a running engine.
C32_AutoStopAndOneLoop ==
  /\ Cardinality(engPending) <= 1
  /\ engPending # {} => (engRunning /\ \A f \in engPending : f.id = engRafId)
  /\ (engLog # <<>> /\ engLog[Len(engLog)].kind = "word")
       => LET elapsed == engClock - engStartTime
              targetIndex == engPausedWordIndex + ((elapsed * engWpm) \div 60000)
              lastIndex == engLog[Len(engLog)].index
          IN IF targetIndex < engWords
               THEN /\ lastIndex = targetIndex
                    /\ engRunning
                    /\ Cardinality(engPending) = 1
               ELSE /\ lastIndex = engWords - 1
                    /\ ~engRunning
                    /\ engRafId = 0
                    /\ engPending = {}

\* C32 witness: a two-word list started at 0 ran to its end: both words
\* were lastIndex, the last one twice, then the engine stopped itself.
C32_Witness ==
  /\ engWords = 2
  /\ engLog = <<WordEvent(0), WordEvent(1), WordEvent(1)>>
  /\ ~engRunning
  /\ engPending = {}

\* C38: every index passed to onWordChange lies in 0..words.length-1, the
\* indices delivered after one start() never decrease, and nothing is
\* delivered after pause() or destroy() until the next start().
C38_IndicesInRangeAndOrdered ==
  \A k \in 1..Len(engLog) :
    engLog[k].kind = "word"
      => /\ 0 <= engLog[k].index /\ engLog[k].index <= engWords - 1
         /\ \A h \in WordsBefore(k) : engLog[h].index <= engLog[k].index
         /\ \A h \in 1..(k - 1) : engLog[h].kind \notin {"pause", "destroy"}

\* the positions in text where a word begins: a character that is not
\* whitespace, at the start or after whitespace
WordStarts(text) ==
  SelectSeq([i \in 1..Len(text) |-> i],
            LAMBDA i : ~IsWhitespace(text[i]) /\ (i = 1 \/ IsWhitespace(text[i - 1])))

\* the word of text that begins at position s
WordFrom(text, s) ==
  LET after == {e \in s..Len(text) : \A h \in s..e : ~IsWhitespace(text[h])}
  IN SubSeq(text, s, Max(after))

\* C34: groupWords returns the whitespace-separated words of text in their
\* order, in consecutive groups of exactly wordsPerGroup words joined by a
\* space, only the last group possibly shorter, no word lost, repeated or
\* moved; and the call returns.
C34_GroupsPartitionWords ==
  /\ [](grpPc = "returned"
         => LET starts == WordStarts(grpText)
                n == Len(starts)
                count == (n + grpPer - 1) \div grpPer
            IN /\ Len(grpOut) = count
               /\ \A k \in 1..count :
                    LET first == (k - 1) * grpPer + 1
                        last == IF k * grpPer <= n THEN k * grpPer ELSE n
                    IN /\ (k < count => last - first + 1 = grpPer)
                       /\ grpOut[k] = Join([w \in 1..(last - first + 1) |->
                                              WordFrom(grpText, starts[first + w - 1])],
                                           Space))
  /\ (grpPc = "loop" ~> grpPc = "returned")

\* C34 witness: "a b\na" in groups of two: "a b" and "a".
C34_Witness ==
  /\ grpPc = "returned"
  /\ grpText = <<"a", Space, "b", Newline, "a">>
  /\ grpPer = 2
  /\ grpOut = << <<"a", Space, "b">>, <<"a">> >>

\* the selection handler that just ran restored the saved position exactly
\* when its key is the document's filename and the section's pages
RestoredByKey ==
  appCall.handler # "none" =>
    /\ ~appCall.restoredNull <=>
         /\ appSaved.set
         /\ appSaved.filename = appDoc.filename
         /\ appSection.set
         /\ appSaved.sectionStart = appSection.startPage
         /\ appSaved.sectionEnd = appSection.endPage
    /\ ~appCall.restoredNull => appCall.restored = appSaved.wordIndex

\* C33: restorePosition returns the saved word index exactly when a position
\* is saved whose filename, sectionStart and sectionEnd are those of the
\* current document and section, null otherwise, and a position saved for
\* one document or section is never restored into another.
C33_RestoreOnlySameDocument ==
  /\ RestoredByKey
  /\ (appCall.handler # "none" /\ ~appCall.restoredNull) =>
       /\ appSaved.doc = appDoc.id
       /\ appSaved.sectionStart = appSection.startPage
       /\ appSaved.sectionEnd = appSection.endPage

\* the outline is ordered by non-decreasing pageIndex
OutlineOrdered(outline) ==
  \A k \in 1..(Len(outline) - 1) : outline[k].pageIndex <= outline[k + 1].pageIndex

\* the outline is ordered by strictly increasing pageIndex
OutlineIncreasing(outline) ==
  \A k \in 1..(Len(outline) - 1) : outline[k].pageIndex < outline[k + 1].pageIndex

\* the range handleTOCSelect just computed is a valid one and a section is set
TOCRangeValid ==
  /\ 1 <= appCall.startPage
  /\ appCall.startPage <= appCall.endPage
  /\ appCall.endPage <= appDoc.pageCount
  /\ appSection.set

\* C36: for an outline ordered by non-decreasing pageIndex and any entry
\* selected in handleTOCSelect, the range computed satisfies
\* 1 <= start <= end <= pageCount and a section is set, also when two
\* entries lie on the same page.
C36_TOCRangeValid ==
  (appCall.handler = "toc" /\ OutlineOrdered(appDoc.outline)) => TOCRangeValid

\* the same for outlines whose entries lie on different pages
TOCRangeValidWhenIncreasing ==
  (appCall.handler = "toc" /\ OutlineIncreasing(appDoc.outline)) => TOCRangeValid

\* C37: for a document whose text the extraction worker produced and every
\* valid range, the whole document included, the section text setSection
\* stores equals what extractSectionText returns for the same range.
C37_SectionTextAgrees ==
  (/\ appCall.handler \in {"toc", "range"}
   /\ 1 <= appCall.startPage
   /\ appCall.startPage <= appCall.endPage
   /\ appCall.endPage <= appDoc.pageCount) =>
    /\ appSection.set
    /\ appSection.text = appCall.sectionText

\* the same for the ranges that are not the whole document
SectionTextAgreesOnPart ==
  (/\ appCall.handler \in {"toc", "range"}
   /\ 1 <= appCall.startPage
   /\ appCall.startPage <= appCall.endPage
   /\ appCall.endPage <= appDoc.pageCount
   /\ ~(appCall.startPage = 1 /\ appCall.endPage = appDoc.pageCount)) =>
    /\ appSection.set
    /\ appSection.text = appCall.sectionText

\* a callback that extractText registered for job j runs: its timer, its
\* worker's onmessage or onerror, the completion of its buffer read
CallbackOf(j) ==
  \/ TimeoutFires(j)
  \/ WorkerOnMessage(j)
  \/ WorkerOnError(j)
  \/ ArrayBufferResolved(j)
  \/ ArrayBufferRejected(j)

\* the step leaves Worker k alone: no terminate() and no postMessage on it
WorkerUntouched(k) ==
  /\ termCalls'[k] = termCalls[k]
  /\ cancelPosted'[k] = cancelPosted[k]
  /\ Len(toWorker'[k]) <= Len(toWorker[k])

\* C35: no callback of an earlier job on a PDFProcessor (its 30 s timer, its
\* worker's onmessage or onerror, its buffer-read completion) terminates or
\* posts to the worker created for a later job; in particular the timer of
\* a cancelled job does not tear down the job started after the cancel.
C35_EarlierJobLeavesLaterWorker ==
  [][\A j \in Jobs : CallbackOf(j) =>
       \A k \in Jobs : k > j => WorkerUntouched(k)]_vars

\* the case of C35 after cancel(): the timer of a cancelled job leaves the
\* worker of a later job alone
CancelledTimerLeavesLaterWorker ==
  [][\A j \in Jobs : (cancelled[j] /\ TimeoutFires(j)) =>
       \A k \in Jobs : k > j => WorkerUntouched(k)]_vars

====
